---- MODULE Spec2Model ----
(***************************************************************************)
(* Model of the AI orchestration layer of ui-vis: the result cache         *)
(* (cacheService), credential resolution (providers / env) and the         *)
(* analyzeDesign / generateProjectFiles calls of lib/ai/services.ts.       *)
(*                                                                         *)
(* JavaScript strings are sequences of UTF-16 code units (naturals), so    *)
(* that toLowerCase, trim, JSON.stringify and the rolling hash are         *)
(* computed the way the code computes them.                                *)
(***************************************************************************)
EXTENDS Integers, Sequences, FiniteSets, TLC

(***************************************************************************)
(* Strings                                                                 *)
(***************************************************************************)
S_openai == <<111, 112, 101, 110, 97, 105>>
S_OpenAI == <<79, 112, 101, 110, 65, 73>>
S_togetherai == <<116, 111, 103, 101, 116, 104, 101, 114, 97, 105>>
S_lmstudio == <<108, 109, 115, 116, 117, 100, 105, 111>>
S_ollama == <<111, 108, 108, 97, 109, 97>>
S_acme == <<97, 99, 109, 101>>
S_input == <<105, 110, 112, 117, 116>>
S_provider == <<112, 114, 111, 118, 105, 100, 101, 114>>
S_model == <<109, 111, 100, 101, 108>>
S_analysis == <<97, 110, 97, 108, 121, 115, 105, 115>>
S_imageHash == <<105, 109, 97, 103, 101, 72, 97, 115, 104>>
S_text == <<116, 101, 120, 116>>
S_null == <<110, 117, 108, 108>>
S_TogetherAI == <<84, 111, 103, 101, 116, 104, 101, 114, 65, 73>>
S_ollamaDefaultUrl == <<104, 116, 116, 112, 58, 47, 47, 108, 111, 99, 97, 108, 104, 111, 115, 116, 58, 49, 49, 52, 51, 52>>
S_lmstudioDefaultUrl == <<104, 116, 116, 112, 58, 47, 47, 108, 111, 99, 97, 108, 104, 111, 115, 116, 58, 49, 50, 51, 52, 47, 118, 49>>
S_lmstudioKey == <<108, 109, 45, 115, 116, 117, 100, 105, 111>>
S_sk1 == <<115, 107, 45, 49>>
S_sk2 == <<115, 107, 45, 50>>
S_blank == <<32, 32>>
S_urlA == <<104, 116, 116, 112, 58, 47, 47, 97>>
S_urlB == <<104, 116, 116, 112, 58, 47, 47, 98>>
S_gpt4 == <<103, 112, 116, 45, 52>>
S_llama3 == <<108, 108, 97, 109, 97, 51>>

\* String.prototype.toLowerCase on the ASCII range
ToLowerCase(s) ==
    [i \in 1..Len(s) |-> IF s[i] \in 65..90 THEN s[i] + 32 ELSE s[i]]

\* White space as String.prototype.trim and the regex class \s see it
IsSpace(c) ==
    c \in {9, 10, 11, 12, 13, 32, 160, 5760, 8232, 8233, 8239, 8287, 12288, 65279}
        \cup (8192..8202)

RECURSIVE TrimStart(_)
TrimStart(s) ==
    IF s # <<>> /\ IsSpace(Head(s)) THEN TrimStart(Tail(s)) ELSE s

RECURSIVE TrimEnd(_)
TrimEnd(s) ==
    IF s # <<>> /\ IsSpace(s[Len(s)]) THEN TrimEnd(SubSeq(s, 1, Len(s) - 1)) ELSE s

\* String.prototype.trim
Trim(s) == TrimEnd(TrimStart(s))

\* The order of two strings under the default Array.prototype.sort
\* (code unit by code unit, a proper prefix first)
RECURSIVE StrLess(_, _)
StrLess(a, b) ==
    IF b = <<>> THEN FALSE
    ELSE IF a = <<>> THEN TRUE
    ELSE IF Head(a) # Head(b) THEN Head(a) < Head(b)
    ELSE StrLess(Tail(a), Tail(b))

(***************************************************************************)
(* Optional values: a string, or undefined / null                          *)
(***************************************************************************)
Undef == [def |-> FALSE, s |-> <<>>]
Str(s) == [def |-> TRUE, s |-> s]

\* JavaScript truthiness of an optional string
Truthy(v) == v.def /\ v.s # <<>>

\* a || b on optional strings
OrElse(a, b) == IF Truthy(a) THEN a ELSE b

(***************************************************************************)
(* JSON values.  An object is the sequence of its properties in insertion  *)
(* order.                                                                  *)
(***************************************************************************)
JStr(s) == [t |-> "str", s |-> s, props |-> <<>>]
JNull == [t |-> "null", s |-> <<>>, props |-> <<>>]
JUndef == [t |-> "undef", s |-> <<>>, props |-> <<>>]
JObj(props) == [t |-> "obj", s |-> <<>>, props |-> props]
Prop(k, v) == [k |-> k, v |-> v]

\* an optional string as a JSON value (undefined stays undefined)
JOpt(v) == IF v.def THEN JStr(v.s) ELSE JUndef

\* Object.keys
ObjectKeys(o) == [i \in 1..Len(o.props) |-> o.props[i].k]

\* Insert one string into a sorted list of strings
RECURSIVE SortedInsert(_, _)
SortedInsert(k, sorted) ==
    IF sorted = <<>> THEN <<k>>
    ELSE IF StrLess(k, Head(sorted)) THEN <<k>> \o sorted
    ELSE <<Head(sorted)>> \o SortedInsert(k, Tail(sorted))

\* Array.prototype.sort with the default comparison
RECURSIVE SortStrings(_)
SortStrings(ks) ==
    IF ks = <<>> THEN <<>> ELSE SortedInsert(Head(ks), SortStrings(Tail(ks)))

\* The character escapes of a JSON string literal
RECURSIVE Escape(_)
Escape(s) ==
    IF s = <<>> THEN <<>>
    ELSE (CASE Head(s) = 34 -> <<92, 34>>
            [] Head(s) = 92 -> <<92, 92>>
            [] Head(s) = 10 -> <<92, 110>>
            [] OTHER -> <<Head(s)>>) \o Escape(Tail(s))

Quote(s) == <<34>> \o Escape(s) \o <<34>>

\* The value of property k of an object (undefined when it has none; the
\* last definition wins)
RECURSIVE GetProp(_, _)
GetProp(props, k) ==
    IF props = <<>> THEN JUndef
    ELSE IF props[Len(props)].k = k THEN props[Len(props)].v
    ELSE GetProp(SubSeq(props, 1, Len(props) - 1), k)

\* JSON.stringify(value, replacer) with an array replacer: the array is the
\* property list of EVERY object of the value, nested ones included; only
\* the listed properties are written, in the order of the list.
RECURSIVE Stringify(_, _)
RECURSIVE StringifyProps(_, _, _, _)
StringifyProps(o, ks, list, first) ==
    IF ks = <<>> THEN <<>>
    ELSE LET v == GetProp(o.props, Head(ks))
         IN IF v.t = "undef"
            THEN StringifyProps(o, Tail(ks), list, first)
            ELSE (IF first THEN <<>> ELSE <<44>>)
                 \o Quote(Head(ks)) \o <<58>> \o Stringify(v, list)
                 \o StringifyProps(o, Tail(ks), list, FALSE)

Stringify(v, list) ==
    CASE v.t = "str" -> Quote(v.s)
      [] v.t = "null" -> S_null
      [] v.t = "obj" -> <<123>> \o StringifyProps(v, list, list, TRUE) \o <<125>>
      [] OTHER -> <<>>

(***************************************************************************)
(* createCacheKey                                                          *)
(***************************************************************************)
\* A 32-bit integer from its two 16-bit halves (ToInt32)
FromHalves(hi, lo) ==
    IF hi >= 32768 THEN (hi - 65536) * 65536 + lo ELSE hi * 65536 + lo

\* One round of the loop: hash = ((hash << 5) - hash) + char; hash & hash,
\* in 32-bit two's complement arithmetic.
HashStep(hash, char) ==
    LET hi == (hash \div 65536) % 65536
        lo == hash % 65536
        shLo == (lo * 32) % 65536
        shHi == (hi * 32 + (lo * 32) \div 65536) % 65536
        rawLo == shLo - lo + char
        resLo == rawLo % 65536
        resHi == (shHi - hi + rawLo \div 65536) % 65536
    IN FromHalves(resHi, resLo)

\* The loop over the characters i..Len(s) of the string, from the hash so far
RECURSIVE HashFrom(_, _, _)
HashFrom(hash, s, i) ==
    IF i > Len(s) THEN hash
    ELSE LET next == HashStep(hash, s[i])
         IN IF next \in Int THEN HashFrom(next, s, i + 1) ELSE hash

Digit36(d) == IF d < 10 THEN 48 + d ELSE 87 + d

\* The digits of a non-positive integer's magnitude in base 36
RECURSIVE DigitsOfNeg(_)
DigitsOfNeg(n) ==
    LET d == (36 - (n % 36)) % 36
        q == (n + d) \div 36
    IN (IF q = 0 THEN <<>> ELSE DigitsOfNeg(q)) \o <<Digit36(d)>>

\* Number.prototype.toString(36)
ToString36(n) ==
    IF n < 0 THEN <<45>> \o DigitsOfNeg(n) ELSE DigitsOfNeg(0 - n)

StableStringNoSort(input) == Stringify(input, ObjectKeys(input))

\* const stableString = JSON.stringify(input, Object.keys(input).sort())
StableString(input) == Stringify(input, SortStrings(ObjectKeys(input)))

createCacheKey(input) == ToString36(HashFrom(0, StableString(input), 1))

(***************************************************************************)
(* Errors.  A message is the sequence of the fragments it was built from:  *)
(* the literal text of a template and the value interpolated after it.     *)
(***************************************************************************)
Frag(lit, arg) == [lit |-> lit, arg |-> arg]

\* new Error(message)
Err(msg) == [isError |-> TRUE, msg |-> msg]

\* a thrown value that is not an instance of Error
NonError == [isError |-> FALSE, msg |-> <<>>]

NoError == [isError |-> FALSE, msg |-> <<Frag("", <<>>)>>]

(***************************************************************************)
(* Environment configuration and credential resolution                     *)
(***************************************************************************)
\* ENV_SCHEMA.parse(process.env): optional variables pass through, the two
\* local base URLs get their default when the variable is undefined
EnvParse(processEnv) ==
    [OPENAI_API_KEY |-> processEnv.OPENAI_API_KEY,
     OPENAI_BASE_URL |-> processEnv.OPENAI_BASE_URL,
     TOGETHER_API_KEY |-> processEnv.TOGETHER_API_KEY,
     OLLAMA_BASE_URL |-> IF processEnv.OLLAMA_BASE_URL.def
                         THEN processEnv.OLLAMA_BASE_URL
                         ELSE Str(S_ollamaDefaultUrl),
     LMSTUDIO_BASE_URL |-> IF processEnv.LMSTUDIO_BASE_URL.def
                           THEN processEnv.LMSTUDIO_BASE_URL
                           ELSE Str(S_lmstudioDefaultUrl)]

\* validateApiCredentials throws exactly when this holds
InvalidApiKey(apiKey) == ~Truthy(apiKey) \/ Trim(apiKey.s) = <<>>

MissingApiKeyError(providerName) ==
    Err(<<Frag("Missing API key for ", providerName),
          Frag(". Please check your environment variables.", <<>>)>>)

\* What a client was constructed with
Client(kind, apiKey, baseUrl) == [kind |-> kind, apiKey |-> apiKey, baseUrl |-> baseUrl]
NoClient == Client("none", Undef, Undef)

Resolved(client) == [ok |-> TRUE, error |-> NoError, client |-> client]
Thrown(error) == [ok |-> FALSE, error |-> error, client |-> NoClient]

initializeOpenAIEnvFirst(config, processEnv) ==
    LET env == EnvParse(processEnv)
        apiKey == OrElse(env.OPENAI_API_KEY, config.credentials.apiKey)
    IN IF InvalidApiKey(apiKey)
       THEN Thrown(MissingApiKeyError(S_OpenAI))
       ELSE Resolved(Client("openai", apiKey,
                            OrElse(env.OPENAI_BASE_URL, config.credentials.baseUrl)))

initializeOpenAI(config, processEnv) ==
    LET env == EnvParse(processEnv)
        apiKey == OrElse(config.credentials.apiKey, env.OPENAI_API_KEY)
    IN IF InvalidApiKey(apiKey)
       THEN Thrown(MissingApiKeyError(S_OpenAI))
       ELSE Resolved(Client("openai", apiKey,
                            OrElse(config.credentials.baseUrl, env.OPENAI_BASE_URL)))

initializeTogetherAI(config, processEnv) ==
    LET env == EnvParse(processEnv)
        apiKey == OrElse(config.credentials.apiKey, env.TOGETHER_API_KEY)
    IN IF InvalidApiKey(apiKey)
       THEN Thrown(MissingApiKeyError(S_TogetherAI))
       ELSE Resolved(Client("togetherai", apiKey, Undef))

initializeLMStudio(config, processEnv) ==
    LET env == EnvParse(processEnv)
        baseUrl == OrElse(config.credentials.baseUrl, env.LMSTUDIO_BASE_URL)
    IN IF ~Truthy(baseUrl)
       THEN Thrown(Err(<<Frag("Missing LM Studio base URL", <<>>)>>))
       ELSE Resolved(Client("lmstudio",
                            OrElse(config.credentials.apiKey, Str(S_lmstudioKey)),
                            baseUrl))

initializeOllama(config, processEnv) ==
    LET env == EnvParse(processEnv)
        baseUrl == OrElse(OrElse(config.credentials.baseUrl, env.OLLAMA_BASE_URL),
                          Str(S_ollamaDefaultUrl))
    IN Resolved(Client("ollama", Undef, baseUrl))

UnsupportedProviderError(provider) == Err(<<Frag("Unsupported provider: ", provider)>>)

initializeProviderFallback(config, processEnv) ==
    LET p == ToLowerCase(config.provider)
    IN CASE p = S_openai -> initializeOpenAI(config, processEnv)
         [] p = S_togetherai -> initializeTogetherAI(config, processEnv)
         [] p = S_lmstudio -> initializeLMStudio(config, processEnv)
         [] p = S_ollama -> initializeOllama(config, processEnv)
         [] OTHER -> initializeOpenAI(config, processEnv)

initializeProvider(config, processEnv) ==
    LET p == ToLowerCase(config.provider)
    IN CASE p = S_openai -> initializeOpenAI(config, processEnv)
         [] p = S_togetherai -> initializeTogetherAI(config, processEnv)
         [] p = S_lmstudio -> initializeLMStudio(config, processEnv)
         [] p = S_ollama -> initializeOllama(config, processEnv)
         [] OTHER -> Thrown(UnsupportedProviderError(config.provider))

(***************************************************************************)
(* parseGeneratedContent (called as parseGeneratedFiles)                   *)
(***************************************************************************)
S_dotMd == <<46, 109, 100>>
S_generatedDir == <<47, 103, 101, 110, 101, 114, 97, 116, 101, 100, 47>>

\* the five default file names
defaultFiles ==
    << <<112, 114, 111, 106, 101, 99, 116, 45, 115, 101, 116, 117, 112, 46, 109, 100>>,
       <<102, 111, 108, 100, 101, 114, 45, 115, 116, 114, 117, 99, 116, 117, 114, 101, 46, 109, 100>>,
       <<99, 111, 109, 112, 111, 110, 101, 110, 116, 115, 46, 109, 100>>,
       <<115, 116, 121, 108, 105, 110, 103, 46, 109, 100>>,
       <<105, 109, 112, 108, 101, 109, 101, 110, 116, 97, 116, 105, 111, 110, 45, 112, 108, 97, 110, 46, 109, 100>> >>

\* the class [\w-]
IsNameChar(c) == c \in (48..57) \cup (65..90) \cup (97..122) \cup {95, 45}

\* the pattern without its m flag: ^ and $ hold at the ends of the text only
IsLineTerminatorNoFlag(c) == FALSE

\* the characters ^ and $ stop at under the m flag
IsLineTerminator(c) == c \in {10, 13, 8232, 8233}

\* String.prototype.substring(start, end), positions counted from 0
Substring(s, start, end) ==
    LET clamp(x) == IF x < 0 THEN 0 ELSE IF x > Len(s) THEN Len(s) ELSE x
        a == clamp(start)
        b == clamp(end)
    IN IF a <= b THEN SubSeq(s, a + 1, b) ELSE SubSeq(s, b + 1, a)

\* the length of the run of white space that starts at position i (from 1)
RECURSIVE SpaceRun(_, _)
SpaceRun(s, i) ==
    IF i <= Len(s) /\ IsSpace(s[i]) THEN 1 + SpaceRun(s, i + 1) ELSE 0

RECURSIVE NameRun(_, _)
NameRun(s, i) ==
    IF i <= Len(s) /\ IsNameChar(s[i]) THEN 1 + NameRun(s, i + 1) ELSE 0

\* The match of /^#\s+([\w-]+\.md)\s*$/m that starts at position i (from 1):
\* its length (0 when there is none) and the captured file name.
HeadingAt(s, i) ==
    LET none == [length |-> 0, name |-> <<>>]
        ws == SpaceRun(s, i + 1)
        nameStart == i + 1 + ws
        w == NameRun(s, nameStart)
        afterMd == nameStart + w + 3
        ws2 == SpaceRun(s, afterMd)
        \* the prefixes of the trailing white space after which $ holds
        stops == {j \in 0..ws2 :
                    \/ afterMd + j > Len(s)
                    \/ IsLineTerminator(s[afterMd + j])}
    IN IF ~(i <= Len(s) /\ s[i] = 35 /\ (i = 1 \/ IsLineTerminator(s[i - 1])))
       THEN none
       ELSE IF ws = 0 \/ w = 0 THEN none
       ELSE IF nameStart + w + 2 > Len(s) THEN none
       ELSE IF SubSeq(s, nameStart + w, nameStart + w + 2) # S_dotMd THEN none
       ELSE IF stops = {} THEN none
       ELSE LET j == CHOOSE x \in stops : \A y \in stops : y <= x
            IN [length |-> afterMd + j - i,
                name |-> SubSeq(s, nameStart, nameStart + w + 2)]

\* [...content.matchAll(filePattern)]: the matches from position i on, each
\* with its index (from 0), its length and its file name
RECURSIVE Matches(_, _)
Matches(s, i) ==
    IF i > Len(s) THEN <<>>
    ELSE LET m == HeadingAt(s, i)
         IN IF m.length = 0 THEN Matches(s, i + 1)
            ELSE <<[index |-> i - 1, length |-> m.length, name |-> m.name]>>
                 \o Matches(s, i + m.length)

GeneratedFile(id, name, content) ==
    [id |-> id, name |-> name, content |-> content,
     path |-> S_generatedDir \o name, type |-> "markdown"]

\* Math.ceil(a / b) for a >= 0, b > 0
CeilDiv(a, b) == (a + b - 1) \div b

Min(a, b) == IF a <= b THEN a ELSE b

\* a parser that hands out a default file only for a chunk that has text
parseGeneratedContentSkipEmpty(content, firstId) ==
    LET matches == Matches(content, 1)
        contentPerFile == CeilDiv(Len(content), Len(defaultFiles))
    IN IF Len(matches) > 0
       THEN [i \in 1..Len(matches) |->
               LET startIndex == matches[i].index + matches[i].length
                   endIndex == IF i < Len(matches) THEN matches[i + 1].index
                               ELSE Len(content)
               IN GeneratedFile(firstId + i - 1, matches[i].name,
                                Trim(Substring(content, startIndex, endIndex)))]
       ELSE [i \in 1..Min(Len(defaultFiles), Len(content)) |->
               LET startIndex == (i - 1) * contentPerFile
                   endIndex == Min(startIndex + contentPerFile, Len(content))
               IN GeneratedFile(firstId + i - 1, defaultFiles[i],
                                Trim(Substring(content, startIndex, endIndex)))]

\* The files of one response; the i-th file gets the fresh id firstId + i - 1
parseGeneratedContent(content, firstId) ==
    LET matches == Matches(content, 1)
        contentPerFile == CeilDiv(Len(content), Len(defaultFiles))
    IN IF Len(matches) > 0
       THEN [i \in 1..Len(matches) |->
               LET startIndex == matches[i].index + matches[i].length
                   endIndex == IF i < Len(matches) THEN matches[i + 1].index
                               ELSE Len(content)
               IN GeneratedFile(firstId + i - 1, matches[i].name,
                                Trim(Substring(content, startIndex, endIndex)))]
       ELSE [i \in 1..Len(defaultFiles) |->
               LET startIndex == (i - 1) * contentPerFile
                   endIndex == Min(startIndex + contentPerFile, Len(content))
               IN GeneratedFile(firstId + i - 1, defaultFiles[i],
                                Trim(Substring(content, startIndex, endIndex)))]

(***************************************************************************)
(* State                                                                   *)
(***************************************************************************)
VARIABLES
    now,              \* Date.now()
    analysisCache,    \* Map: cache key -> [result, timestamp]
    generationCache,  \* Map: cache key -> [files, timestamp]
    storedProjects,   \* the project list kept in localStorage, newest first
    processEnv,       \* process.env
    calls,            \* the call each caller has in progress or finished last
    nextId,           \* the next identifier uuidv4 / randomUUID will hand out
    started,          \* number of calls begun so far
    ticks,            \* number of times the clock has advanced
    lastAnalysis,     \* the latest analysis returned, while no write followed it
    procs,            \* the callers that issue calls
    probe,            \* the arguments a pure function is applied to
    answer,           \* what it returned
    throttled,        \* the closure of one throttle(func, limit) wrapper
    wizard            \* the GenerationWizard component and the AI store

vars == <<now, analysisCache, generationCache, storedProjects, processEnv, calls,
          nextId, started, ticks, lastAnalysis, procs, probe, answer, throttled, wizard>>

\* the closure right after throttle(func, limit): lastArgs 0 stands for null,
\* timer for the time the pending setTimeout is due (0: none pending), and
\* invoked lists the invocations of func with their time
IdleThrottle == [inThrottle |-> FALSE, lastArgs |-> 0, timer |-> 0, invoked |-> <<>>]

\* no wizard is mounted
NoWizard == [mounted |-> FALSE]

\* Bounds of the model
MaxCalls == 2
MaxTicks == 2
MaxChunks == 1

AllProcs == {1, 2}

\* Cache expiration in milliseconds (24 hours)
CACHE_EXPIRATION == 24 * 60 * 60 * 1000

\* Maximum number of projects to store
MAX_PROJECTS == 50

(***************************************************************************)
(* cacheService                                                            *)
(***************************************************************************)
ExpiredAtOrAfter(entry, t) == t - entry.timestamp >= CACHE_EXPIRATION

\* Date.now() - cached.timestamp > CACHE_EXPIRATION
Expired(entry, t) == t - entry.timestamp > CACHE_EXPIRATION

\* Map.prototype.set
MapSet(map, key, entry) ==
    [k \in DOMAIN map \cup {key} |-> IF k = key THEN entry ELSE map[k]]

EmptyMap == [k \in {} |-> 0]

NoSweep(map, t) == map

\* one loop of cleanupCache
Sweep(map, t) == [k \in {x \in DOMAIN map : ~Expired(map[x], t)} |-> map[k]]

\* the object getCachedAnalysis / cacheAnalysisResult hash
AnalysisKeyObject(input, provider, model) ==
    JObj(<<Prop(S_input, input), Prop(S_provider, JStr(provider)),
           Prop(S_model, JStr(model))>>)

\* the object getCachedGeneration / cacheGeneratedFiles hash
GenerationKeyObject(analysis, provider, model) ==
    JObj(<<Prop(S_analysis, JStr(analysis)), Prop(S_provider, JStr(provider)),
           Prop(S_model, JStr(model))>>)

NoResult ==
    [analysis |-> <<>>,
     metadata |-> [model |-> <<>>, provider |-> <<>>, timestamp |-> 0 - 1, id |-> 0 - 1]]

getCachedAnalysisSwapped(cache, t, input, provider, model) ==
    LET cacheKey == createCacheKey(AnalysisKeyObject(input, model, provider))
    IN IF cacheKey \notin DOMAIN cache \/ Expired(cache[cacheKey], t)
       THEN [found |-> FALSE, result |-> NoResult]
       ELSE [found |-> TRUE, result |-> cache[cacheKey].result]

getCachedAnalysis(cache, t, input, provider, model) ==
    LET cacheKey == createCacheKey(AnalysisKeyObject(input, provider, model))
    IN IF cacheKey \notin DOMAIN cache \/ Expired(cache[cacheKey], t)
       THEN [found |-> FALSE, result |-> NoResult]
       ELSE [found |-> TRUE, result |-> cache[cacheKey].result]

getCachedGeneration(cache, t, analysis, provider, model) ==
    LET cacheKey == createCacheKey(GenerationKeyObject(analysis, provider, model))
    IN IF cacheKey \notin DOMAIN cache \/ Expired(cache[cacheKey], t)
       THEN [found |-> FALSE, files |-> <<>>]
       ELSE [found |-> TRUE, files |-> cache[cacheKey].files]

\* cacheAnalysisResult: the two maps after the set and the cleanupCache
cacheAnalysisResult(aCache, gCache, t, input, provider, model, result) ==
    LET cacheKey == createCacheKey(AnalysisKeyObject(input, provider, model))
    IN [analysisCache |-> Sweep(MapSet(aCache, cacheKey,
                                       [result |-> result, timestamp |-> t]), t),
        generationCache |-> Sweep(gCache, t)]

\* cacheGeneratedFiles: the two maps after the set and the cleanupCache
cacheGeneratedFiles(aCache, gCache, t, analysis, provider, model, files) ==
    LET cacheKey == createCacheKey(GenerationKeyObject(analysis, provider, model))
    IN [analysisCache |-> Sweep(aCache, t),
        generationCache |-> Sweep(MapSet(gCache, cacheKey,
                                         [files |-> files, timestamp |-> t]), t)]

(***************************************************************************)
(* fileStorage                                                             *)
(***************************************************************************)
\* saveFilesToLocalStorage: the stored list after the save (the new project
\* takes the identifier id)
saveFilesToLocalStorage(projects, t, id, files, projectName, provider, model) ==
    LET newProject == [id |-> id, name |-> projectName, timestamp |-> t,
                       files |-> files,
                       metadata |-> [provider |-> provider, model |-> model]]
        all == <<newProject>> \o projects
    IN SubSeq(all, 1, Min(Len(all), MAX_PROJECTS))

\* updateStoredProject: the stored list after the update; updates gives the
\* fields to replace (name, files), each optional; an unknown id changes nothing
updateStoredProject(projects, t, projectId, updates) ==
    LET found == {i \in 1..Len(projects) : projects[i].id = projectId}
    IN IF found = {} THEN projects
       ELSE LET projectIndex == CHOOSE i \in found : \A k \in found : i <= k
            IN [projects EXCEPT ![projectIndex] =
                  [@ EXCEPT !.name = IF updates.name.def THEN updates.name.s ELSE @,
                            !.files = IF updates.files.def THEN updates.files.s ELSE @,
                            !.timestamp = t]]

\* deleteStoredProject
deleteStoredProject(projects, projectId) ==
    SelectSeq(projects, LAMBDA project : project.id # projectId)

\* saveFileToProject: the file replaces the project's file of the same id or
\* is pushed, then updateStoredProject(projectId, {files})
saveFileToProject(projects, t, projectId, file) ==
    LET found == {i \in 1..Len(projects) : projects[i].id = projectId}
    IN IF found = {} THEN projects
       ELSE LET project == projects[CHOOSE i \in found : \A k \in found : i <= k]
                at == {i \in 1..Len(project.files) : project.files[i].id = file.id}
                files == IF at = {} THEN Append(project.files, file)
                         ELSE [project.files EXCEPT
                                 ![CHOOSE i \in at : \A k \in at : i <= k] = file]
            IN updateStoredProject(projects, t, projectId,
                                   [name |-> Undef, files |-> Str(files)])

(***************************************************************************)
(* Prompts and request parameters                                          *)
(***************************************************************************)
KnownProviders == {S_openai, S_togetherai, S_lmstudio, S_ollama}

\* the branch a switch (provider.toLowerCase()) of the prompt builders takes
Template(provider) ==
    IF ToLowerCase(provider) \in KnownProviders THEN ToLowerCase(provider) ELSE <<>>

\* String.prototype.includes
Includes(s, sub) ==
    \E i \in 0..(Len(s) - Len(sub)) : SubSeq(s, i + 1, i + Len(sub)) = sub

\* getOptimalParameters: temperature in hundredths, and max_tokens
getOptimalParameters(provider, model) ==
    LET p == ToLowerCase(provider)
    IN CASE p = S_openai ->
              IF Includes(model, S_gpt4)
              THEN [temperature |-> 70, max_tokens |-> 4000]
              ELSE [temperature |-> 80, max_tokens |-> 2000]
         [] p = S_togetherai -> [temperature |-> 75, max_tokens |-> 4000]
         [] p = S_lmstudio -> [temperature |-> 80, max_tokens |-> 2000]
         [] p = S_ollama -> [temperature |-> 70, max_tokens |-> 2000]
         [] OTHER -> [temperature |-> 70, max_tokens |-> 3000]

\* an optional number: a || b
NoNum == [def |-> FALSE, n |-> 0]
Num(n) == [def |-> TRUE, n |-> n]
NumOrElse(a, b) == IF a.def /\ a.n # 0 THEN a.n ELSE b

\* getNormalizedModelName for the model names of this model (none of them
\* is a key of the TogetherAI modelMap)
getNormalizedModelName(provider, model) == model

(***************************************************************************)
(* Calls                                                                   *)
(***************************************************************************)
NoCredentials == [apiKey |-> Undef, baseUrl |-> Undef]

Config(provider, model, credentials) ==
    [provider |-> provider, model |-> model, temperature |-> NoNum,
     maxTokens |-> NoNum, credentials |-> credentials]

NoConfig == Config(<<>>, <<>>, NoCredentials)

\* a DesignInput; the image file is given by the base64 text of its content
DesignInput(imageFile, textDescription) ==
    [imageFile |-> imageFile, textDescription |-> textDescription]

NoInput == DesignInput(Undef, Undef)

NoRequest ==
    [model |-> <<>>, system |-> <<>>, template |-> <<>>, text |-> Undef,
     image |-> "none", data |-> <<>>, temperature |-> 0, max_tokens |-> 0,
     stream |-> FALSE]

NoResponse == [kind |-> "none", content |-> Undef, error |-> NoError]

NoOutcome == [kind |-> "none", result |-> NoResult, files |-> <<>>, error |-> NoError]
ResultOutcome(result) == [NoOutcome EXCEPT !.kind = "result", !.result = result]
FilesOutcome(files) == [NoOutcome EXCEPT !.kind = "files", !.files = files]
ClientOutcome == [NoOutcome EXCEPT !.kind = "client"]
ErrorOutcome(error) == [NoOutcome EXCEPT !.kind = "error", !.error = error]

IdleCall ==
    [pc |-> "idle", op |-> "none", seq |-> 0, input |-> NoInput, analysis |-> <<>>,
     projectName |-> Undef, config |-> NoConfig, phases |-> <<>>,
     client |-> NoClient, vendorRequests |-> 0, request |-> NoRequest,
     response |-> NoResponse, pending |-> NoResult, hit |-> FALSE,
     imageFailed |-> FALSE, chunks |-> <<>>, received |-> 0,
     streamFailed |-> FALSE, outcome |-> NoOutcome]

NoLast ==
    [valid |-> FALSE, input |-> NoInput, config |-> NoConfig,
     result |-> NoResult, storedAt |-> 0, fromVendor |-> FALSE]

\* What one step of a call works on: the call and the shared state
Ctx(c) ==
    [c |-> c, analysisCache |-> analysisCache, generationCache |-> generationCache,
     storedProjects |-> storedProjects, nextId |-> nextId, last |-> lastAnalysis]

Phase(ctx, name) == [ctx EXCEPT !.c.phases = @ \o <<name>>]

Finish(ctx, outcome) == [ctx EXCEPT !.c.pc = "done", !.c.outcome = outcome]

(***************************************************************************)
(* analyzeDesign                                                           *)
(***************************************************************************)
NoInputError ==
    Err(<<Frag("No input provided. Please provide an image or text description.", <<>>)>>)

\* the catch block of analyzeDesign
AnalyzeCatch(ctx, error) ==
    Finish(ctx, ErrorOutcome(
        IF error.isError
        THEN Err(<<Frag("Failed to analyze design: ", <<>>)>> \o error.msg)
        ELSE Err(<<Frag("Failed to analyze design: Unknown error", <<>>)>>)))

\* the input object of the analysis cache key
AnalysisKeyInput(imageHash, input) ==
    JObj(<<Prop(S_imageHash, imageHash), Prop(S_text, JOpt(input.textDescription))>>)

\* a write that leaves an entry already stored under the key in place
AnalyzeStoreFirstWins(ctx0, imageHash) ==
    LET ctx == Phase(ctx0, "CachingResult")
        c == ctx.c
        key == createCacheKey(AnalysisKeyObject(AnalysisKeyInput(imageHash, c.input),
                                                c.config.provider, c.config.model))
        maps == cacheAnalysisResult(ctx.analysisCache, ctx.generationCache, now,
                                    AnalysisKeyInput(imageHash, c.input),
                                    c.config.provider, c.config.model, c.pending)
        kept == IF key \in DOMAIN ctx.analysisCache
                THEN MapSet(maps.analysisCache, key, ctx.analysisCache[key])
                ELSE maps.analysisCache
    IN Finish([ctx EXCEPT !.analysisCache = kept,
                          !.generationCache = maps.generationCache,
                          !.last = [valid |-> TRUE, input |-> c.input,
                                    config |-> c.config, result |-> c.pending,
                                    storedAt |-> now, fromVendor |-> TRUE]],
              ResultOutcome(c.pending))

\* cacheAnalysisResult(...) and return result
AnalyzeStore(ctx0, imageHash) ==
    LET ctx == Phase(ctx0, "CachingResult")
        c == ctx.c
        maps == cacheAnalysisResult(ctx.analysisCache, ctx.generationCache, now,
                                    AnalysisKeyInput(imageHash, c.input),
                                    c.config.provider, c.config.model, c.pending)
    IN Finish([ctx EXCEPT !.analysisCache = maps.analysisCache,
                          !.generationCache = maps.generationCache,
                          !.last = [valid |-> TRUE, input |-> c.input,
                                    config |-> c.config, result |-> c.pending,
                                    storedAt |-> now, fromVendor |-> TRUE]],
              ResultOutcome(c.pending))

\* the result object of a settled vendor call, then the cache write
AnalyzeBuild(ctx, response) ==
    LET c == ctx.c
        analysisText == IF Truthy(response.content) THEN response.content.s ELSE <<>>
        result == [analysis |-> analysisText,
                   metadata |-> [model |-> c.config.model, provider |-> c.config.provider,
                                 timestamp |-> now, id |-> ctx.nextId]]
        built == Phase([ctx EXCEPT !.c.pending = result, !.nextId = @ + 1],
                       "ParsingResponse")
    IN IF c.input.imageFile.def
       THEN [built EXCEPT !.c.pc = "imageForStore"]
       ELSE AnalyzeStore(built, JNull)

AnalyzeResponseSwallow(ctx0, response) ==
    AnalyzeBuild([ctx0 EXCEPT !.c.response = response], response)

\* the awaited vendor call has settled
AnalyzeResponse(ctx0, response) ==
    LET ctx == [ctx0 EXCEPT !.c.response = response]
    IN IF response.kind = "throw" THEN AnalyzeCatch(ctx, response.error)
       ELSE AnalyzeBuild(ctx, response)

\* build the user message and issue the request
AnalyzeDispatch(ctx0, base64) ==
    LET ctx == ctx0
        c == ctx.c
        p == ToLowerCase(c.config.provider)
        optimizedParams == getOptimalParameters(c.config.provider, c.config.model)
        imageFormat == CASE ~c.input.imageFile.def -> "none"
                         [] p = S_openai -> "openai"
                         [] p = S_togetherai -> "togetherai"
                         [] p = S_lmstudio -> "lmstudio"
                         [] p = S_ollama -> "ollama"
                         [] OTHER -> "unsupported"
        request == [model |-> IF p = S_togetherai
                              THEN getNormalizedModelName(c.config.provider, c.config.model)
                              ELSE c.config.model,
                    system |-> Template(c.config.provider),
                    template |-> Template(c.config.provider),
                    text |-> c.input.textDescription,
                    image |-> imageFormat,
                    data |-> base64,
                    temperature |-> NumOrElse(c.config.temperature, optimizedParams.temperature),
                    max_tokens |-> NumOrElse(c.config.maxTokens, optimizedParams.max_tokens),
                    stream |-> FALSE]
    IN IF imageFormat = "unsupported"
       THEN AnalyzeCatch(ctx, Err(<<Frag("Provider ", c.config.provider),
                                    Frag(" does not support image input", <<>>)>>))
       ELSE IF p \notin KnownProviders
       THEN AnalyzeCatch(ctx, UnsupportedProviderError(c.config.provider))
       ELSE [Phase(ctx, "Dispatching") EXCEPT !.c.pc = "vendor",
                                              !.c.request = request,
                                              !.c.vendorRequests = @ + 1]

\* getCachedAnalysis, then initializeProvider and the system prompt
AnalyzeLookup(ctx0, imageHash) ==
    LET ctx == Phase(ctx0, "CacheLookup")
        c == ctx.c
        cached == getCachedAnalysis(ctx.analysisCache, now,
                                    AnalysisKeyInput(imageHash, c.input),
                                    c.config.provider, c.config.model)
        key == createCacheKey(AnalysisKeyObject(AnalysisKeyInput(imageHash, c.input),
                                                c.config.provider, c.config.model))
        provider == initializeProvider(c.config, processEnv)
        resolving == Phase(ctx, "ResolvingCredentials")
        building == Phase([resolving EXCEPT !.c.client = provider.client], "BuildingPrompt")
    IN IF cached.found
       THEN Finish([ctx EXCEPT !.c.hit = TRUE,
                               !.last = [valid |-> TRUE, input |-> c.input,
                                         config |-> c.config, result |-> cached.result,
                                         storedAt |-> ctx.analysisCache[key].timestamp,
                                         fromVendor |-> /\ ctx.last.fromVendor
                                                        /\ ctx.last.input = c.input
                                                        /\ ctx.last.config = c.config]],
                   ResultOutcome(cached.result))
       ELSE IF ~provider.ok THEN AnalyzeCatch(resolving, provider.error)
       ELSE IF c.input.imageFile.def THEN [building EXCEPT !.c.pc = "imageForMessage"]
       ELSE AnalyzeDispatch(building, <<>>)

AnalyzeEnterLookupFirst(ctx0) ==
    LET ctx == Phase(ctx0, "ValidatingInput")
        c == ctx.c
    IN IF c.input.imageFile.def THEN [ctx EXCEPT !.c.pc = "imageForKey"]
       ELSE AnalyzeLookup(ctx, JNull)

\* the call itself, up to its first await
AnalyzeEnter(ctx0) ==
    LET ctx == Phase(ctx0, "ValidatingInput")
        c == ctx.c
    IN IF ~c.input.imageFile.def /\ ~Truthy(c.input.textDescription)
       THEN AnalyzeCatch(ctx, NoInputError)
       ELSE IF c.input.imageFile.def THEN [ctx EXCEPT !.c.pc = "imageForKey"]
       ELSE AnalyzeLookup(ctx, JNull)

(***************************************************************************)
(* generateProjectFiles                                                    *)
(***************************************************************************)
\* the catch block of generateProjectFiles
GenerateCatch(ctx, error) ==
    Finish(ctx, ErrorOutcome(
        IF error.isError
        THEN Err(<<Frag("Failed to generate files: ", <<>>)>> \o error.msg)
        ELSE Err(<<Frag("Failed to generate files: Unknown error", <<>>)>>)))

\* a call that never saves
SaveNever(ctx, files) == ctx

\* if (projectName) saveFilesToLocalStorage(...)
SaveIfNamed(ctx, files) ==
    IF Truthy(ctx.c.projectName)
    THEN [ctx EXCEPT !.storedProjects =
                         saveFilesToLocalStorage(@, now, ctx.nextId, files,
                                                 ctx.c.projectName.s,
                                                 ctx.c.config.provider, ctx.c.config.model),
                     !.nextId = @ + 1]
    ELSE ctx

GenerateResponseCacheFirst(ctx0, response) ==
    LET ctx == [ctx0 EXCEPT !.c.response = response]
        c == ctx.c
        generationText == IF Truthy(response.content) THEN response.content.s ELSE <<>>
        files == parseGeneratedContent(generationText, ctx.nextId)
        parsed == Phase([ctx EXCEPT !.nextId = @ + Len(files)], "ParsingResponse")
        maps == cacheGeneratedFiles(ctx.analysisCache, ctx.generationCache, now,
                                    c.analysis, c.config.provider, c.config.model, files)
        cached == [Phase(parsed, "CachingResult") EXCEPT
                       !.analysisCache = maps.analysisCache,
                       !.generationCache = maps.generationCache]
    IN IF response.kind = "throw" THEN GenerateCatch(cached, response.error)
       ELSE Finish(SaveIfNamed(cached, files), FilesOutcome(files))

\* the awaited vendor call has settled: parse, cache, save
GenerateResponse(ctx0, response) ==
    LET ctx == [ctx0 EXCEPT !.c.response = response]
        c == ctx.c
        generationText == IF Truthy(response.content) THEN response.content.s ELSE <<>>
        files == parseGeneratedContent(generationText, ctx.nextId)
        parsed == Phase([ctx EXCEPT !.nextId = @ + Len(files)], "ParsingResponse")
        maps == cacheGeneratedFiles(ctx.analysisCache, ctx.generationCache, now,
                                    c.analysis, c.config.provider, c.config.model, files)
        cached == [Phase(parsed, "CachingResult") EXCEPT
                       !.analysisCache = maps.analysisCache,
                       !.generationCache = maps.generationCache]
    IN IF response.kind = "throw" THEN GenerateCatch(ctx, response.error)
       ELSE Finish(SaveIfNamed(cached, files), FilesOutcome(files))

\* the call itself, up to its await
GenerateEnter(ctx0) ==
    LET ctx == Phase(ctx0, "CacheLookup")
        c == ctx.c
        p == ToLowerCase(c.config.provider)
        cached == getCachedGeneration(ctx.generationCache, now, c.analysis,
                                      c.config.provider, c.config.model)
        provider == initializeProvider(c.config, processEnv)
        resolving == Phase(ctx, "ResolvingCredentials")
        building == Phase([resolving EXCEPT !.c.client = provider.client], "BuildingPrompt")
        optimizedParams == getOptimalParameters(c.config.provider, c.config.model)
        request == [model |-> IF p = S_togetherai
                              THEN getNormalizedModelName(c.config.provider, c.config.model)
                              ELSE c.config.model,
                    system |-> Template(c.config.provider),
                    template |-> Template(c.config.provider),
                    text |-> Str(c.analysis),
                    image |-> "none",
                    data |-> <<>>,
                    temperature |-> NumOrElse(c.config.temperature, optimizedParams.temperature),
                    max_tokens |-> NumOrElse(c.config.maxTokens, optimizedParams.max_tokens),
                    stream |-> FALSE]
    IN IF cached.found
       THEN Finish(SaveIfNamed([ctx EXCEPT !.c.hit = TRUE], cached.files),
                   FilesOutcome(cached.files))
       ELSE IF ~provider.ok THEN GenerateCatch(resolving, provider.error)
       ELSE IF p \notin KnownProviders
       THEN GenerateCatch(building, UnsupportedProviderError(c.config.provider))
       ELSE [Phase(building, "Dispatching") EXCEPT !.c.pc = "vendor",
                                                   !.c.request = request,
                                                   !.c.vendorRequests = @ + 1]

(***************************************************************************)
(* streamingAnalyzeDesign                                                  *)
(***************************************************************************)
\* the normal completion of the generator
EndedOutcome == [NoOutcome EXCEPT !.kind = "ended"]

StartChunk == <<Frag("Starting analysis...\n\n", <<>>)>>

TextChunk(text) == <<Frag("", text)>>

\* the chunk of the outer catch block
ErrorChunk(error) ==
    IF error.isError THEN <<Frag("Error: ", <<>>)>> \o error.msg
    ELSE <<Frag("An unknown error occurred during streaming analysis", <<>>)>>

\* the chunk of the inner catch block
StreamingErrorChunk(error) ==
    <<Frag("Streaming error: ", <<>>)>>
    \o (IF error.isError THEN error.msg ELSE <<Frag("Unknown error", <<>>)>>)

Yield(ctx, chunk) == [ctx EXCEPT !.c.chunks = @ \o <<chunk>>]

StreamCatchRethrow(ctx, error) == Finish(ctx, ErrorOutcome(error))

\* the outer catch block: one chunk, then the generator returns
StreamCatch(ctx, error) ==
    Finish(Yield(ctx, ErrorChunk(error)), [EndedOutcome EXCEPT !.error = error])

\* what follows `await analyzeDesign(input, modelConfig)` once that call has
\* settled: yield result.analysis, or the outer catch block
StreamAfter(ctx) ==
    IF ctx.c.pc # "done" THEN ctx
    ELSE IF ctx.c.outcome.kind = "result"
    THEN Finish(Yield(ctx, TextChunk(ctx.c.outcome.result.analysis)),
                [EndedOutcome EXCEPT !.result = ctx.c.outcome.result])
    ELSE StreamCatch(ctx, ctx.c.outcome.error)

\* const result = await analyzeDesign(input, modelConfig); yield result.analysis
StreamFallback(ctx) == StreamAfter(AnalyzeEnter(ctx))

StreamFailureNoFallback(ctx, error) ==
    StreamCatch([ctx EXCEPT !.c.streamFailed = TRUE], error)

\* the inner catch block: the stream could not be opened or broke off
StreamFailure(ctx, error) ==
    StreamFallback(Yield([ctx EXCEPT !.c.streamFailed = TRUE],
                         StreamingErrorChunk(error)))

\* a generator that goes through analyzeDesign for every provider
StreamDispatchViaAnalyze(ctx0, base64) == StreamFallback(Yield(ctx0, StartChunk))

\* the first yield, then the streaming request or the non-streaming call
StreamDispatch(ctx0, base64) ==
    LET ctx == Yield(ctx0, StartChunk)
        c == ctx.c
        optimizedParams == getOptimalParameters(c.config.provider, c.config.model)
        request == [model |-> c.config.model,
                    system |-> Template(c.config.provider),
                    template |-> Template(c.config.provider),
                    text |-> c.input.textDescription,
                    image |-> IF c.input.imageFile.def THEN "openai" ELSE "none",
                    data |-> base64,
                    temperature |-> NumOrElse(c.config.temperature, optimizedParams.temperature),
                    max_tokens |-> NumOrElse(c.config.maxTokens, optimizedParams.max_tokens),
                    stream |-> TRUE]
    IN IF ToLowerCase(c.config.provider) = S_openai
       THEN [Phase(ctx, "Dispatching") EXCEPT !.c.pc = "streamOpen",
                                              !.c.request = request,
                                              !.c.vendorRequests = @ + 1]
       ELSE StreamFallback(ctx)

\* the generator's body up to its first await
StreamEnter(ctx0) ==
    LET ctx == Phase(ctx0, "ValidatingInput")
        c == ctx.c
        provider == initializeProvider(c.config, processEnv)
        resolving == Phase(ctx, "ResolvingCredentials")
        building == Phase([resolving EXCEPT !.c.client = provider.client], "BuildingPrompt")
    IN IF ~c.input.imageFile.def /\ ~Truthy(c.input.textDescription)
       THEN StreamCatch(ctx, NoInputError)
       ELSE IF ~provider.ok THEN StreamCatch(resolving, provider.error)
       ELSE IF c.input.imageFile.def THEN [building EXCEPT !.c.pc = "streamImage"]
       ELSE StreamDispatch(building, <<>>)

(***************************************************************************)
(* Inputs of the model                                                     *)
(***************************************************************************)
T_a == <<97>>
T_b == <<98>>
T_x == <<120>>
T_img == <<81, 81, 61, 61>>
T_boom == <<98, 111, 111, 109>>
T_proj == <<112>>
\* "# a.md", a line feed, "ok"
T_heading == <<35, 32, 97, 46, 109, 100, 10, 111, 107>>

Inputs ==
    {DesignInput(Undef, Undef), DesignInput(Undef, Str(<<>>)),
     DesignInput(Undef, Str(T_a)), DesignInput(Undef, Str(T_b)),
     DesignInput(Str(T_img), Str(T_a))}

WithKey == [apiKey |-> Str(S_sk1), baseUrl |-> Undef]

Configs ==
    {Config(S_openai, S_gpt4, WithKey), Config(S_openai, S_gpt4, NoCredentials),
     Config(S_acme, S_gpt4, NoCredentials)}

\* the configurations initializeProvider is called with directly
ClientConfigs ==
    Configs \cup {Config(S_OpenAI, S_gpt4, WithKey),
                  Config(S_ollama, S_llama3, NoCredentials)}

Analyses == {T_x}

ProjectNames == {Undef}

Env(openaiKey, openaiUrl, togetherKey, ollamaUrl, lmstudioUrl) ==
    [OPENAI_API_KEY |-> openaiKey, OPENAI_BASE_URL |-> openaiUrl,
     TOGETHER_API_KEY |-> togetherKey, OLLAMA_BASE_URL |-> ollamaUrl,
     LMSTUDIO_BASE_URL |-> lmstudioUrl]

Envs == {Env(Undef, Undef, Undef, Undef, Undef)}

\* what the vendor call settles with
Responses ==
    {[kind |-> "ok", content |-> Str(T_heading), error |-> NoError],
     [kind |-> "throw", content |-> Undef, error |-> Err(<<Frag("", T_boom)>>)],
     [kind |-> "throw", content |-> Undef, error |-> NonError]}

TickSteps == {1, CACHE_EXPIRATION}

\* what the opening of a stream settles with
OpenResponses ==
    {[kind |-> "ok", content |-> Undef, error |-> NoError],
     [kind |-> "throw", content |-> Undef, error |-> Err(<<Frag("", T_boom)>>)]}

\* what a round of the stream's iteration brings
StreamEvents ==
    {[kind |-> "ok", content |-> Str(T_b), error |-> NoError],
     [kind |-> "ok", content |-> Undef, error |-> NoError],
     [kind |-> "end", content |-> Undef, error |-> NoError],
     [kind |-> "throw", content |-> Undef, error |-> Err(<<Frag("", T_boom)>>)],
     [kind |-> "throw", content |-> Undef, error |-> NonError]}

(***************************************************************************)
(* Actions                                                                 *)
(***************************************************************************)
\* the state after a step of caller p that ends in ctx
Apply(p, ctx) ==
    /\ calls' = [calls EXCEPT ![p] = ctx.c]
    /\ analysisCache' = ctx.analysisCache
    /\ generationCache' = ctx.generationCache
    /\ storedProjects' = ctx.storedProjects
    /\ nextId' = ctx.nextId
    /\ lastAnalysis' = ctx.last

CanCall(p) ==
    /\ p \in procs
    /\ calls[p].pc \in {"idle", "done"}
    /\ started < MaxCalls

AnalyzeDesign(p, input, config) ==
    /\ CanCall(p)
    /\ started' = started + 1
    /\ Apply(p, AnalyzeEnter(Ctx([IdleCall EXCEPT !.op = "analyze", !.seq = started + 1,
                                                  !.input = input,
                                                  !.config = config])))
    /\ UNCHANGED <<now, processEnv, ticks, procs, probe, answer, throttled, wizard>>

GenerateProjectFiles(p, analysis, config, projectName) ==
    /\ CanCall(p)
    /\ started' = started + 1
    /\ Apply(p, GenerateEnter(Ctx([IdleCall EXCEPT !.op = "generate",
                                                   !.seq = started + 1,
                                                   !.analysis = analysis,
                                                   !.projectName = projectName,
                                                   !.config = config])))
    /\ UNCHANGED <<now, processEnv, ticks, procs, probe, answer, throttled, wizard>>

\* a direct call of initializeProvider (createClient)
InitializeProvider(p, config) ==
    /\ CanCall(p)
    /\ started' = started + 1
    /\ LET provider == initializeProvider(config, processEnv)
           c == [IdleCall EXCEPT !.op = "initialize", !.seq = started + 1,
                                 !.config = config,
                                 !.client = provider.client]
       IN Apply(p, Finish(Ctx(c), IF provider.ok THEN ClientOutcome
                                  ELSE ErrorOutcome(provider.error)))
    /\ UNCHANGED <<now, processEnv, ticks, procs, probe, answer, throttled, wizard>>

\* an awaited imageToBase64 settles: the FileReader loads the file, or it
\* fails and the promise rejects with the error event
ImageRead(p, loaded) ==
    /\ calls[p].pc \in {"imageForKey", "imageForMessage", "imageForStore"}
    /\ LET ctx == Ctx(calls[p])
           base64 == calls[p].input.imageFile.s
           settled == IF ~loaded
                      THEN AnalyzeCatch([ctx EXCEPT !.c.imageFailed = TRUE], NonError)
                      ELSE CASE calls[p].pc = "imageForKey" -> AnalyzeLookup(ctx, JStr(base64))
                             [] calls[p].pc = "imageForMessage" -> AnalyzeDispatch(ctx, base64)
                             [] OTHER -> AnalyzeStore(ctx, JStr(base64))
       IN Apply(p, IF calls[p].op = "stream" THEN StreamAfter(settled) ELSE settled)
    /\ UNCHANGED <<now, processEnv, started, ticks, procs, probe, answer, throttled, wizard>>

\* the awaited vendor call settles
VendorResponse(p, response) ==
    /\ calls[p].pc = "vendor"
    /\ Apply(p, CASE calls[p].op = "analyze" -> AnalyzeResponse(Ctx(calls[p]), response)
                  [] calls[p].op = "stream" ->
                         StreamAfter(AnalyzeResponse(Ctx(calls[p]), response))
                  [] OTHER -> GenerateResponse(Ctx(calls[p]), response))
    /\ UNCHANGED <<now, processEnv, started, ticks, procs, probe, answer, throttled, wizard>>

clearAllCaches ==
    /\ analysisCache # EmptyMap \/ generationCache # EmptyMap
    /\ analysisCache' = EmptyMap
    /\ generationCache' = EmptyMap
    /\ lastAnalysis' = NoLast
    /\ UNCHANGED <<now, storedProjects, processEnv, calls, nextId, started, ticks, procs,
                   probe, answer, throttled, wizard>>

\* time passes
Tick(d) ==
    /\ ticks < MaxTicks
    /\ now' = now + d
    /\ ticks' = ticks + 1
    /\ UNCHANGED <<analysisCache, generationCache, storedProjects, processEnv, calls,
                   nextId, started, lastAnalysis, procs, probe, answer, throttled, wizard>>

\* a call of the generator, run up to its first await
StreamingAnalyzeDesign(p, input, config) ==
    /\ CanCall(p)
    /\ started' = started + 1
    /\ Apply(p, StreamEnter(Ctx([IdleCall EXCEPT !.op = "stream", !.seq = started + 1,
                                                 !.input = input,
                                                 !.config = config])))
    /\ UNCHANGED <<now, processEnv, ticks, procs, probe, answer, throttled, wizard>>

\* the generator's own await of imageToBase64 settles
StreamImageRead(p, loaded) ==
    /\ calls[p].pc = "streamImage"
    /\ LET ctx == Ctx(calls[p])
       IN Apply(p, IF loaded THEN StreamDispatch(ctx, calls[p].input.imageFile.s)
                   ELSE StreamCatch([ctx EXCEPT !.c.imageFailed = TRUE], NonError))
    /\ UNCHANGED <<now, processEnv, started, ticks, procs, probe, answer, throttled, wizard>>

\* the awaited create({... stream: true}) settles
StreamOpened(p, response) ==
    /\ calls[p].pc = "streamOpen"
    /\ LET ctx == Ctx(calls[p])
       IN Apply(p, IF response.kind = "throw" THEN StreamFailure(ctx, response.error)
                   ELSE [ctx EXCEPT !.c.pc = "streaming"])
    /\ UNCHANGED <<now, processEnv, started, ticks, procs, probe, answer, throttled, wizard>>

\* one round of `for await (const chunk of stream)`: a chunk (yielded when
\* its delta has content), the end of the stream, or its failure
StreamEvent(p, event) ==
    /\ calls[p].pc = "streaming"
    /\ event.kind = "ok" => calls[p].received < MaxChunks
    /\ LET ctx == Ctx(calls[p])
       IN Apply(p, CASE event.kind = "ok" ->
                          LET got == [ctx EXCEPT !.c.received = @ + 1]
                          IN IF Truthy(event.content)
                             THEN Yield(got, TextChunk(event.content.s))
                             ELSE got
                     [] event.kind = "end" -> Finish(ctx, EndedOutcome)
                     [] OTHER -> StreamFailure(ctx, event.error))
    /\ UNCHANGED <<now, processEnv, started, ticks, procs, probe, answer, throttled, wizard>>

NoProbe == [kind |-> "none"]
NoAnswer == [done |-> FALSE]

\* the state of the service before any call
ServiceInit ==
    /\ now = 1
    /\ analysisCache = EmptyMap
    /\ generationCache = EmptyMap
    /\ storedProjects = <<>>
    /\ processEnv \in Envs
    /\ calls = [p \in AllProcs |-> IdleCall]
    /\ nextId = 1
    /\ started = 0
    /\ ticks = 0
    /\ lastAnalysis = NoLast

Init ==
    /\ ServiceInit
    /\ procs = {1}
    /\ probe = NoProbe
    /\ answer = NoAnswer
    /\ throttled = IdleThrottle
    /\ wizard = NoWizard

Next ==
    \/ \E p \in AllProcs, input \in Inputs, config \in Configs :
          AnalyzeDesign(p, input, config)
    \/ \E p \in AllProcs, analysis \in Analyses, config \in Configs,
          projectName \in ProjectNames :
          GenerateProjectFiles(p, analysis, config, projectName)
    \/ \E p \in AllProcs, config \in ClientConfigs : InitializeProvider(p, config)
    \/ \E p \in AllProcs, loaded \in BOOLEAN : ImageRead(p, loaded)
    \/ \E p \in AllProcs, response \in Responses : VendorResponse(p, response)
    \/ clearAllCaches
    \/ \E d \in TickSteps : Tick(d)

Spec == Init /\ [][Next]_vars

(***************************************************************************)
(* The pure functions on their own: createCacheKey                         *)
(***************************************************************************)
\* the orders a list of properties can be written in
Orderings(seq) ==
    {[i \in 1..Len(seq) |-> seq[f[i]]] :
        f \in {g \in [1..Len(seq) -> 1..Len(seq)] :
                 \A i, j \in 1..Len(seq) : g[i] = g[j] => i = j}}

KeyProviders == {S_openai, S_ollama}
KeyModels == {S_gpt4, S_llama3}

\* the ways to write one analysis key object
AnalysisKeyWritings(imageHash, text, provider, model) ==
    {JObj(top) :
        top \in UNION {Orderings(<<Prop(S_input, JObj(inner)),
                                      Prop(S_provider, JStr(provider)),
                                      Prop(S_model, JStr(model))>>) :
                         inner \in Orderings(<<Prop(S_imageHash, imageHash),
                                                  Prop(S_text, text)>>)}}

\* the ways to write one generation key object
GenerationKeyWritings(analysis, provider, model) ==
    {JObj(top) : top \in Orderings(GenerationKeyObject(analysis, provider, model).props)}

\* two writings of the same key object
KeyProbes ==
    UNION ({ {[kind |-> "key", a |-> a, b |-> b] :
                a \in AnalysisKeyWritings(h, t, p, m),
                b \in AnalysisKeyWritings(h, t, p, m)} :
              h \in {JNull, JStr(T_img)}, t \in {JUndef, JStr(T_a)},
              p \in KeyProviders, m \in KeyModels }
           \cup
           { {[kind |-> "key", a |-> a, b |-> b] :
                a \in GenerationKeyWritings(x, p, m),
                b \in GenerationKeyWritings(x, p, m)} :
              x \in {T_x, T_heading}, p \in KeyProviders, m \in KeyModels })

CreateCacheKey ==
    /\ probe.kind = "key"
    /\ ~answer.done
    /\ answer' = [done |-> TRUE, a |-> createCacheKey(probe.a),
                  b |-> createCacheKey(probe.b)]
    /\ UNCHANGED <<now, analysisCache, generationCache, storedProjects, processEnv,
                   calls, nextId, started, ticks, lastAnalysis, procs, probe, throttled, wizard>>

InitKey ==
    /\ ServiceInit
    /\ procs = {}
    /\ probe \in KeyProbes
    /\ answer = NoAnswer
    /\ throttled = IdleThrottle
    /\ wizard = NoWizard

NextKey == CreateCacheKey

SpecKey == InitKey /\ [][NextKey]_vars

(***************************************************************************)
(* The pure functions on their own: initializeProvider                     *)
(***************************************************************************)
CredProviders == {S_openai, S_togetherai, S_lmstudio, S_ollama, S_acme}

CredOverrides ==
    {[apiKey |-> k, baseUrl |-> u] :
        k \in {Undef, Str(<<>>), Str(S_blank), Str(S_sk1)},
        u \in {Undef, Str(<<>>), Str(S_urlA)}}

CredEnvs ==
    {Env(ok, ou, tk, olu, lmu) :
        ok \in {Undef, Str(S_blank), Str(S_sk2)},
        ou \in {Undef, Str(S_urlB)},
        tk \in {Undef, Str(S_sk2)},
        olu \in {Undef, Str(<<>>), Str(S_urlB)},
        lmu \in {Undef, Str(<<>>), Str(S_urlB)}}

CredProbes ==
    {[kind |-> "cred", config |-> Config(p, S_gpt4, o), env |-> e] :
        p \in CredProviders, o \in CredOverrides, e \in CredEnvs}

ResolveCredentials ==
    /\ probe.kind = "cred"
    /\ ~answer.done
    /\ answer' = [done |-> TRUE, result |-> initializeProvider(probe.config, probe.env)]
    /\ UNCHANGED <<now, analysisCache, generationCache, storedProjects, processEnv,
                   calls, nextId, started, ticks, lastAnalysis, procs, probe, throttled, wizard>>

InitCred ==
    /\ ServiceInit
    /\ procs = {}
    /\ probe \in CredProbes
    /\ answer = NoAnswer
    /\ throttled = IdleThrottle
    /\ wizard = NoWizard

NextCred == ResolveCredentials

SpecCred == InitCred /\ [][NextCred]_vars

(***************************************************************************)
(* The streaming generator with its non-streaming fallback                 *)
(***************************************************************************)
StreamConfigs == Configs \cup {Config(S_ollama, S_llama3, NoCredentials)}

NextStream ==
    \/ \E p \in AllProcs, input \in Inputs, config \in StreamConfigs :
          StreamingAnalyzeDesign(p, input, config)
    \/ \E p \in AllProcs, loaded \in BOOLEAN : StreamImageRead(p, loaded)
    \/ \E p \in AllProcs, response \in OpenResponses : StreamOpened(p, response)
    \/ \E p \in AllProcs, event \in StreamEvents : StreamEvent(p, event)
    \/ \E p \in AllProcs, loaded \in BOOLEAN : ImageRead(p, loaded)
    \/ \E p \in AllProcs, response \in Responses : VendorResponse(p, response)

SpecStream == Init /\ [][NextStream]_vars

(***************************************************************************)
(* The pure functions on their own: parseGeneratedContent                  *)
(***************************************************************************)
\* the longest text tried, counted in pieces
MaxTokens == 4

\* the pieces the texts are put together from: "# a.md\n", "# b-1.md", "#",
\* " ", "\n", "x", "a.md"
Tokens ==
    {<<35, 32, 97, 46, 109, 100, 10>>, <<35, 32, 98, 45, 49, 46, 109, 100>>, <<35>>,
     <<32>>, <<10>>, <<120>>, <<97, 46, 109, 100>>}

RECURSIVE Join(_)
Join(pieces) == IF pieces = <<>> THEN <<>> ELSE Head(pieces) \o Join(Tail(pieces))

ParseProbes ==
    {[kind |-> "parse", text |-> Join(pieces)] :
        pieces \in UNION {[1..n -> Tokens] : n \in 0..MaxTokens}}

ParseGeneratedContent ==
    /\ probe.kind = "parse"
    /\ ~answer.done
    /\ answer' = [done |-> TRUE, files |-> parseGeneratedContent(probe.text, nextId)]
    /\ UNCHANGED <<now, analysisCache, generationCache, storedProjects, processEnv,
                   calls, nextId, started, ticks, lastAnalysis, procs, probe, throttled, wizard>>

InitParse ==
    /\ ServiceInit
    /\ procs = {}
    /\ probe \in ParseProbes
    /\ answer = NoAnswer
    /\ throttled = IdleThrottle
    /\ wizard = NoWizard

NextParse == ParseGeneratedContent

SpecParse == InitParse /\ [][NextParse]_vars

(***************************************************************************)
(* File generation with responses written under the generation prompts     *)
(***************************************************************************)
\* "# Header.tsx\nh\n# Footer.tsx\nf"
T_tsx ==
    <<35, 32, 72, 101, 97, 100, 101, 114, 46, 116, 115, 120, 10, 104, 10, 35, 32, 70, 111, 111, 116, 101, 114, 46, 116, 115, 120, 10, 102>>

GenResponses ==
    {[kind |-> "ok", content |-> Str(T_tsx), error |-> NoError],
     [kind |-> "ok", content |-> Str(T_heading), error |-> NoError],
     [kind |-> "throw", content |-> Undef, error |-> Err(<<Frag("", T_boom)>>)]}

GenProjectNames == {Undef, Str(<<>>), Str(T_proj)}

NextGen ==
    \/ \E p \in AllProcs, analysis \in Analyses, config \in Configs,
          projectName \in GenProjectNames :
          GenerateProjectFiles(p, analysis, config, projectName)
    \/ \E p \in AllProcs, response \in GenResponses : VendorResponse(p, response)
    \/ clearAllCaches
    \/ \E d \in TickSteps : Tick(d)

SpecGen == Init /\ [][NextGen]_vars

(***************************************************************************)
(* processRevision                                                         *)
(***************************************************************************)
\* revisedFiles.map(...) with the path of the original left aside
PreserveIdentityIdOnly(originalFiles, revisedFiles) ==
    [i \in 1..Len(revisedFiles) |->
        LET file == revisedFiles[i]
            found == {j \in 1..Len(originalFiles) : originalFiles[j].name = file.name}
        IN IF found = {} THEN file
           ELSE LET originalFile ==
                        originalFiles[CHOOSE j \in found : \A k \in found : j <= k]
                IN [file EXCEPT !.id = IF originalFile.id # 0 THEN originalFile.id ELSE @]]

\* revisedFiles.map(file => ({...file, id: originalFile?.id || file.id,
\* path: originalFile?.path || file.path})), originalFile being the first
\* original file of the same name; the id 0 stands for the empty string
PreserveIdentity(originalFiles, revisedFiles) ==
    [i \in 1..Len(revisedFiles) |->
        LET file == revisedFiles[i]
            found == {j \in 1..Len(originalFiles) : originalFiles[j].name = file.name}
        IN IF found = {} THEN file
           ELSE LET originalFile ==
                        originalFiles[CHOOSE j \in found : \A k \in found : j <= k]
                IN [file EXCEPT
                      !.id = IF originalFile.id # 0 THEN originalFile.id ELSE @,
                      !.path = IF originalFile.path # <<>> THEN originalFile.path ELSE @]]

\* what the call settles with: the revised files, or the error it rethrows
processRevision(originalFiles, config, env, response, firstId) ==
    LET provider == initializeProvider(config, env)
        text == IF Truthy(response.content) THEN response.content.s ELSE <<>>
        revisedFiles == parseGeneratedContent(text, firstId)
    IN IF ~provider.ok THEN [ok |-> FALSE, error |-> provider.error, files |-> <<>>]
       ELSE IF response.kind = "throw"
       THEN [ok |-> FALSE, error |-> response.error, files |-> <<>>]
       ELSE [ok |-> TRUE, error |-> NoError,
             files |-> PreserveIdentity(originalFiles, revisedFiles)]

\* the longest list of original files tried
MaxOriginals == 2

\* "a.md", "c.md"
OriginalNames == {<<97, 46, 109, 100>>, <<99, 46, 109, 100>>}

\* original files as an earlier call returned them (ids 1, 2, ... in list
\* order), at the generated path or moved to "/p"
OriginalLists ==
    UNION {{[i \in 1..n |->
               [GeneratedFile(i, names[i], <<111>>) EXCEPT
                   !.path = IF moved[i] THEN <<47, 112>> ELSE @]] :
             names \in [1..n -> OriginalNames], moved \in [1..n -> BOOLEAN]} :
           n \in 0..MaxOriginals}

\* the pieces of the revised texts: "# a.md\n", "# b-1.md\n", "x"
ReviseTokens ==
    {<<35, 32, 97, 46, 109, 100, 10>>, <<35, 32, 98, 45, 49, 46, 109, 100, 10>>, <<120>>}

ReviseResponses ==
    {[kind |-> "ok", content |-> Str(Join(pieces)), error |-> NoError] :
        pieces \in UNION {[1..n -> ReviseTokens] : n \in 1..MaxTokens}}
    \cup {[kind |-> "ok", content |-> Undef, error |-> NoError],
          [kind |-> "throw", content |-> Undef, error |-> Err(<<Frag("", T_boom)>>)]}

ReviseConfigs == {Config(S_openai, S_gpt4, WithKey), Config(S_openai, S_gpt4, NoCredentials)}

ReviseProbes ==
    {[kind |-> "revise", originalFiles |-> o, config |-> c, response |-> r] :
        o \in OriginalLists, c \in ReviseConfigs, r \in ReviseResponses}

ProcessRevision ==
    /\ probe.kind = "revise"
    /\ ~answer.done
    /\ answer' = [done |-> TRUE,
                  result |-> processRevision(probe.originalFiles, probe.config,
                                             processEnv, probe.response,
                                             Len(probe.originalFiles) + 1)]
    /\ UNCHANGED <<now, analysisCache, generationCache, storedProjects, processEnv,
                   calls, nextId, started, ticks, lastAnalysis, procs, probe, throttled, wizard>>

InitRevise ==
    /\ ServiceInit
    /\ procs = {}
    /\ probe \in ReviseProbes
    /\ answer = NoAnswer
    /\ throttled = IdleThrottle
    /\ wizard = NoWizard

NextRevise == ProcessRevision

SpecRevise == InitRevise /\ [][NextRevise]_vars

(***************************************************************************)
(* The calls under configurations that set temperature and maxTokens       *)
(***************************************************************************)
\* temperature left out, 0 and 0.5 (in hundredths); maxTokens left out and 100
ParamConfigs ==
    {[Config(S_openai, S_gpt4, WithKey) EXCEPT !.temperature = t, !.maxTokens = m] :
        t \in {NoNum, Num(0), Num(50)}, m \in {NoNum, Num(100)}}

ParamInputs == {DesignInput(Undef, Str(T_a))}

NextParams ==
    \/ \E p \in AllProcs, input \in ParamInputs, config \in ParamConfigs :
          AnalyzeDesign(p, input, config)
    \/ \E p \in AllProcs, analysis \in Analyses, config \in ParamConfigs,
          projectName \in ProjectNames :
          GenerateProjectFiles(p, analysis, config, projectName)
    \/ \E p \in AllProcs, input \in ParamInputs, config \in ParamConfigs :
          StreamingAnalyzeDesign(p, input, config)
    \/ \E p \in AllProcs, response \in Responses : VendorResponse(p, response)
    \/ \E p \in AllProcs, response \in OpenResponses : StreamOpened(p, response)
    \/ \E p \in AllProcs, event \in StreamEvents : StreamEvent(p, event)

SpecParams == Init /\ [][NextParams]_vars

(***************************************************************************)
(* Two callers whose analyzeDesign calls interleave at their awaits        *)
(***************************************************************************)
RaceInputs == {DesignInput(Undef, Str(T_a)), DesignInput(Str(T_img), Str(T_a))}

RaceConfigs == {Config(S_openai, S_gpt4, WithKey)}

InitRace ==
    /\ ServiceInit
    /\ procs = AllProcs
    /\ probe = NoProbe
    /\ answer = NoAnswer
    /\ throttled = IdleThrottle
    /\ wizard = NoWizard

NextRace ==
    \/ \E p \in AllProcs, input \in RaceInputs, config \in RaceConfigs :
          AnalyzeDesign(p, input, config)
    \/ \E p \in AllProcs, loaded \in BOOLEAN : ImageRead(p, loaded)
    \/ \E p \in AllProcs, response \in Responses : VendorResponse(p, response)
    \/ \E d \in TickSteps : Tick(d)

SpecRace == InitRace /\ [][NextRace]_vars

(***************************************************************************)
(* The stored project list under the operations of fileStorage             *)
(***************************************************************************)
\* the number of storage operations tried in a row
MaxOps == 3

\* a list of n projects saved one after the other before the run starts
OldProjects(n) ==
    [i \in 1..n |->
        [id |-> 100 + n - i, name |-> T_proj, timestamp |-> 1 - i, files |-> <<>>,
         metadata |-> [provider |-> S_openai, model |-> S_gpt4]]]

StoredLists ==
    {OldProjects(n) : n \in {0, 2, MAX_PROJECTS - 1, MAX_PROJECTS}}

\* the projects an operation is called for: the first, the second and the
\* last of the list, and the id 0 that no project has
ProjectSlots == {"first", "second", "last", "none"}

ProjectIdAt(slot) ==
    CASE slot = "first" /\ Len(storedProjects) >= 1 -> storedProjects[1].id
      [] slot = "second" /\ Len(storedProjects) >= 2 -> storedProjects[2].id
      [] slot = "last" /\ Len(storedProjects) >= 3 ->
             storedProjects[Len(storedProjects)].id
      [] OTHER -> 0

Updates ==
    {[name |-> Str(T_x), files |-> Undef],
     [name |-> Undef, files |-> Str(<<GeneratedFile(7, T_a, T_b)>>)]}

StoreUnchanged ==
    UNCHANGED <<analysisCache, generationCache, processEnv, calls, lastAnalysis,
                procs, probe, answer, throttled, wizard>>

SaveFilesToLocalStorage(files, projectName) ==
    /\ started < MaxOps
    /\ started' = started + 1
    /\ storedProjects' = saveFilesToLocalStorage(storedProjects, now, nextId, files,
                                                 projectName, S_openai, S_gpt4)
    /\ nextId' = nextId + 1
    /\ UNCHANGED <<now, ticks>>
    /\ StoreUnchanged

UpdateStoredProject(slot, updates) ==
    /\ started < MaxOps
    /\ started' = started + 1
    /\ storedProjects' = updateStoredProject(storedProjects, now, ProjectIdAt(slot),
                                             updates)
    /\ UNCHANGED <<now, ticks, nextId>>
    /\ StoreUnchanged

SaveFileToProject(slot, file) ==
    /\ started < MaxOps
    /\ started' = started + 1
    /\ storedProjects' = saveFileToProject(storedProjects, now, ProjectIdAt(slot), file)
    /\ UNCHANGED <<now, ticks, nextId>>
    /\ StoreUnchanged

DeleteStoredProject(slot) ==
    /\ started < MaxOps
    /\ started' = started + 1
    /\ storedProjects' = deleteStoredProject(storedProjects, ProjectIdAt(slot))
    /\ UNCHANGED <<now, ticks, nextId>>
    /\ StoreUnchanged

InitStore ==
    /\ now = 1
    /\ analysisCache = EmptyMap
    /\ generationCache = EmptyMap
    /\ storedProjects \in StoredLists
    /\ processEnv \in Envs
    /\ calls = [p \in AllProcs |-> IdleCall]
    /\ nextId = 1
    /\ started = 0
    /\ ticks = 0
    /\ lastAnalysis = NoLast
    /\ procs = {}
    /\ probe = NoProbe
    /\ answer = NoAnswer
    /\ throttled = IdleThrottle
    /\ wizard = NoWizard

NextStore ==
    \/ \E files \in {<<GeneratedFile(7, T_a, T_b)>>} :
          SaveFilesToLocalStorage(files, T_proj)
    \/ \E slot \in ProjectSlots, updates \in Updates : UpdateStoredProject(slot, updates)
    \/ \E slot \in ProjectSlots : SaveFileToProject(slot, GeneratedFile(7, T_a, T_x))
    \/ \E slot \in ProjectSlots : DeleteStoredProject(slot)
    \/ \E d \in TickSteps : Tick(d)

SpecStore == InitStore /\ [][NextStore]_vars

(***************************************************************************)
(* throttle                                                                *)
(***************************************************************************)
\* the limit the wrapper is made with, in milliseconds
ThrottleLimit == 2

ThrottleArgs == {1, 2}

ThrottleUnchanged ==
    UNCHANGED <<analysisCache, generationCache, storedProjects, processEnv, calls,
                nextId, lastAnalysis, procs, probe, answer, wizard>>

\* a call of the wrapper
ThrottledCall(args) ==
    /\ started < MaxOps
    /\ started' = started + 1
    /\ throttled' =
          IF ~throttled.inThrottle
          THEN [throttled EXCEPT !.invoked = Append(@, [at |-> now, args |-> args]),
                                 !.inThrottle = TRUE,
                                 !.timer = now + ThrottleLimit]
          ELSE [throttled EXCEPT !.lastArgs = args]
    /\ UNCHANGED <<now, ticks>>
    /\ ThrottleUnchanged

\* the callback of setTimeout(..., limit) runs, at its due time or later
ThrottleTimeout ==
    /\ throttled.timer # 0
    /\ now >= throttled.timer
    /\ throttled' =
          IF throttled.lastArgs # 0
          THEN [throttled EXCEPT
                  !.inThrottle = FALSE, !.timer = 0, !.lastArgs = 0,
                  !.invoked = Append(@, [at |-> now, args |-> throttled.lastArgs])]
          ELSE [throttled EXCEPT !.inThrottle = FALSE, !.timer = 0]
    /\ UNCHANGED <<now, ticks, started>>
    /\ ThrottleUnchanged

InitThrottle ==
    /\ ServiceInit
    /\ procs = {}
    /\ probe = NoProbe
    /\ answer = NoAnswer
    /\ throttled = IdleThrottle
    /\ wizard = NoWizard

NextThrottle ==
    \/ \E args \in ThrottleArgs : ThrottledCall(args)
    \/ ThrottleTimeout
    \/ \E d \in TickSteps : Tick(d)

SpecThrottle == InitThrottle /\ [][NextThrottle]_vars

(***************************************************************************)
(* GenerationWizard                                                        *)
(***************************************************************************)
\* the component after mounting over the AI store of a fresh page, which
\* a wizard mounted earlier on the same page may have filled; pending is the
\* awaited call of the running handleNext, currentConfig the provider of
\* the configuration ("" for null), clickStep the currentStep its
\* closure holds, settled how its awaited call ended
MountedWizard ==
    [mounted |-> TRUE, currentStep |-> 0, currentInput |-> FALSE,
     currentConfig |-> "", currentAnalysis |-> FALSE, projectName |-> <<>>,
     generatedFiles |-> <<>>, isProcessing |-> FALSE, error |-> "",
     pending |-> "none", clickStep |-> 0, settled |-> "none"]

\* setCurrentStep(n) and the effect that clears the error when the step changes
SetCurrentStep(w, n) ==
    IF n # w.currentStep THEN [w EXCEPT !.currentStep = n, !.error = ""]
    ELSE w

\* the end of handleNext: move to the next step (onComplete at the last one)
WizardMoveOn(w, step) ==
    IF step < 4 THEN SetCurrentStep(w, step + 1) ELSE w

\* a catch block that sets no error and goes on to the next step
WizardFailedGoOn(w, message) ==
    WizardMoveOn([w EXCEPT !.isProcessing = FALSE, !.pending = "none",
                           !.settled = "failed"], w.clickStep)

\* the catch blocks around analyzeDesign and generateProjectFiles
WizardFailed(w, message) ==
    [w EXCEPT !.error = message, !.isProcessing = FALSE, !.pending = "none",
              !.settled = "failed"]

\* isNextDisabled()
isNextDisabled(w) ==
    \/ w.isProcessing
    \/ w.currentStep = 0 /\ ~w.currentInput
    \/ w.currentStep = 1 /\ w.currentConfig = ""

\* handleNext up to its first await
handleNext(w0) ==
    LET w == [w0 EXCEPT !.error = "", !.clickStep = w0.currentStep, !.settled = "none"]
    IN IF w.currentStep = 0 /\ ~w.currentInput
       THEN [w EXCEPT !.error = "Please provide an image or text description"]
       ELSE IF w.currentStep = 1 /\ w.currentConfig = ""
       THEN [w EXCEPT !.error = "Please select an AI configuration"]
       ELSE IF w.currentStep = 2 /\ w.currentInput /\ w.currentConfig # ""
               /\ ~w.currentAnalysis
       THEN [w EXCEPT !.isProcessing = TRUE, !.pending = "analyze"]
       ELSE IF w.currentStep = 3 /\ w.currentAnalysis /\ Len(w.generatedFiles) = 0
       THEN [w EXCEPT !.isProcessing = TRUE, !.pending = "generate"]
       ELSE WizardMoveOn(w, w.currentStep)

\* the messages the wizard shows for a rejected analyzeDesign
AnalyzeFailure(provider, kind) ==
    IF kind = "API key"
    THEN IF provider = "openai"
         THEN "Missing or invalid API key for openai. Please check your environment variables."
         ELSE "Missing or invalid API key for anthropic. Please check your environment variables."
    ELSE IF kind = "network"
    THEN IF provider = "openai"
         THEN "Network error connecting to openai. Please check your internet connection."
         ELSE "Network error connecting to anthropic. Please check your internet connection."
    ELSE IF kind = "Error"
    THEN "Error: Failed to analyze design: boom"
    ELSE "Failed to analyze design"

\* what a rejection of analyzeDesign is: an Error whose message names the
\* API key, one that names the network, another Error, or not an Error
AnalyzeFailureKinds == {"API key", "network", "Error", "other"}

\* the providers of the configurations the configuration step offers
WizardProviders == {"openai", "anthropic"}

\* the messages of a rejected generateProjectFiles
GenerateFailures == {"Failed to generate files: boom"}

\* the file lists generateProjectFiles resolves with
WizardFiles == {parseGeneratedContent(text, 1) : text \in {<<>>, T_heading}}

WizardUnchanged ==
    UNCHANGED <<now, analysisCache, generationCache, storedProjects, processEnv, calls,
                nextId, started, ticks, lastAnalysis, procs, probe, answer, throttled>>

\* a click on Next
ClickNext ==
    /\ wizard.mounted
    /\ ~isNextDisabled(wizard)
    /\ wizard' = handleNext(wizard)
    /\ WizardUnchanged

\* a click on Back (handleBack); the button is disabled at step 0 and
\* while a call is processed
ClickBack ==
    /\ wizard.mounted
    /\ ~(wizard.currentStep = 0 \/ wizard.isProcessing)
    /\ wizard' = IF wizard.currentStep > 0
                  THEN SetCurrentStep(wizard, wizard.currentStep - 1)
                  ELSE wizard
    /\ WizardUnchanged

\* the input step sets the input and the project name; the FileReader of
\* an uploaded image may set the input after the wizard has moved on
SetInput(projectName) ==
    /\ wizard.mounted
    /\ wizard.currentStep = 0 \/ projectName = wizard.projectName
    /\ ~wizard.currentInput \/ projectName # wizard.projectName
    /\ wizard' = [wizard EXCEPT !.currentInput = TRUE, !.projectName = projectName]
    /\ WizardUnchanged

\* the configuration step sets the configuration
SetConfig(provider) ==
    /\ wizard.mounted
    /\ wizard.currentStep = 1
    /\ provider # wizard.currentConfig
    /\ wizard' = [wizard EXCEPT !.currentConfig = provider]
    /\ WizardUnchanged

\* the awaited analyzeDesign settles
WizardAnalyzed(ok, kind) ==
    /\ wizard.mounted
    /\ wizard.pending = "analyze"
    /\ wizard' =
          IF ok
          THEN WizardMoveOn([wizard EXCEPT !.currentAnalysis = TRUE,
                                           !.isProcessing = FALSE,
                                           !.pending = "none", !.settled = "ok"],
                            wizard.clickStep)
          ELSE WizardFailed(wizard, AnalyzeFailure(wizard.currentConfig, kind))
    /\ WizardUnchanged

\* the awaited generateProjectFiles settles
WizardGenerated(ok, files, message) ==
    /\ wizard.mounted
    /\ wizard.pending = "generate"
    /\ wizard' =
          IF ok
          THEN WizardMoveOn([wizard EXCEPT !.generatedFiles = files,
                                           !.isProcessing = FALSE,
                                           !.pending = "none", !.settled = "ok"],
                            wizard.clickStep)
          ELSE WizardFailed(wizard, message)
    /\ WizardUnchanged

InitWizard ==
    /\ ServiceInit
    /\ procs = {}
    /\ probe = NoProbe
    /\ answer = NoAnswer
    /\ throttled = IdleThrottle
    /\ \E input, analysis \in BOOLEAN, config \in {"", "openai"} :
          wizard = [MountedWizard EXCEPT !.currentInput = input,
                                         !.currentConfig = config,
                                         !.currentAnalysis = analysis]

NextWizard ==
    \/ ClickNext
    \/ ClickBack
    \/ \E projectName \in {<<>>, T_proj} : SetInput(projectName)
    \/ \E provider \in WizardProviders : SetConfig(provider)
    \/ \E ok \in BOOLEAN, kind \in AnalyzeFailureKinds : WizardAnalyzed(ok, kind)
    \/ \E ok \in BOOLEAN, files \in WizardFiles, message \in GenerateFailures :
          WizardGenerated(ok, files, message)

SpecWizard == InitWizard /\ [][NextWizard]_vars

(***************************************************************************)
(* Properties                                                              *)
(***************************************************************************)
Range(seq) == {seq[i] : i \in DOMAIN seq}

\* this step takes caller p's call through the named phase
EntersPhase(p, name) ==
    /\ name \in Range(calls'[p].phases)
    /\ calls'[p].seq # calls[p].seq \/ name \notin Range(calls[p].phases)

LookupStep(p) == EntersPhase(p, "CacheLookup")
StoreStep(p) == EntersPhase(p, "CachingResult")

\* the key a call looks up and stores under, the map it uses, and what the
\* call returns for an entry of that map
CallKey(c) ==
    IF c.op = "analyze"
    THEN createCacheKey(AnalysisKeyObject(
             AnalysisKeyInput(IF c.input.imageFile.def THEN JStr(c.input.imageFile.s)
                              ELSE JNull, c.input),
             c.config.provider, c.config.model))
    ELSE createCacheKey(GenerationKeyObject(c.analysis, c.config.provider, c.config.model))

EntryOutcome(c, entry) ==
    IF c.op = "analyze" THEN ResultOutcome(entry.result) ELSE FilesOutcome(entry.files)

\* C1: when analyze is called with the input and configuration of the
\* analysis returned last, no write in between and within the TTL of the
\* stored entry, the lookup ends the call at once: it returns the identical
\* result (same id, same timestamp), issues no vendor call and draws no new id.
C1_SecondCallIsCacheHit ==
    [][\A p \in AllProcs :
          (/\ LookupStep(p)
           /\ calls'[p].op = "analyze"
           /\ lastAnalysis.valid
           /\ lastAnalysis.input = calls'[p].input
           /\ lastAnalysis.config = calls'[p].config
           /\ now - lastAnalysis.storedAt <= CACHE_EXPIRATION)
          => (/\ calls'[p].pc = "done"
              /\ calls'[p].hit
              /\ calls'[p].outcome = ResultOutcome(lastAnalysis.result)
              /\ calls'[p].vendorRequests = 0
              /\ nextId' = nextId)]_vars

\* a second identical analyze call has returned the first call's result
C1_Witness ==
    \E p \in AllProcs :
        /\ calls[p].op = "analyze" /\ calls[p].pc = "done" /\ calls[p].hit
        /\ calls[p].seq = 2
        /\ lastAnalysis.valid
        /\ lastAnalysis.input = calls[p].input
        /\ calls[p].outcome = ResultOutcome(lastAnalysis.result)
        /\ lastAnalysis.result.metadata.id = 1

\* C2: a lookup (analysis or generation) misses exactly when no entry is
\* stored under the key or the entry is older than the TTL; an entry of age
\* at most the TTL is returned as stored, without a vendor call; and once the
\* TTL has passed since an analyze call stored its analysis, the identical
\* analyze call misses and goes on to the vendor call.
C2_AbsentIffNeverStoredOrExpired ==
    [][\A p \in AllProcs :
          LookupStep(p) =>
             LET c == calls'[p]
                 cache == IF c.op = "analyze" THEN analysisCache ELSE generationCache
                 key == CallKey(c)
                 fresh == /\ key \in DOMAIN cache
                          /\ now - cache[key].timestamp <= CACHE_EXPIRATION
             IN /\ c.hit <=> fresh
                /\ fresh => /\ c.pc = "done"
                            /\ c.outcome = EntryOutcome(c, cache[key])
                            /\ c.vendorRequests = 0
                /\ (/\ c.op = "analyze"
                    /\ lastAnalysis.valid
                    /\ lastAnalysis.input = c.input
                    /\ lastAnalysis.config = c.config
                    /\ lastAnalysis.fromVendor
                    /\ now - lastAnalysis.storedAt > CACHE_EXPIRATION)
                   => /\ ~c.hit
                      /\ IF c.input.imageFile.def THEN c.pc = "imageForMessage"
                         ELSE c.pc = "vendor" /\ c.vendorRequests = 1]_vars

\* an analyze call waits for the vendor while the entry of its key is still
\* stored, older than the TTL
C2_Witness ==
    \E p \in AllProcs :
        /\ calls[p].op = "analyze" /\ calls[p].pc = "vendor"
        /\ calls[p].vendorRequests = 1
        /\ CallKey(calls[p]) \in DOMAIN analysisCache
        /\ now - analysisCache[CallKey(calls[p])].timestamp > CACHE_EXPIRATION

\* C3: an analyze call whose text or image differs from that of the analysis
\* returned last (same provider and model) never returns that analysis from
\* the cache.
C3_DifferentContentNeverHits ==
    [][\A p \in AllProcs :
          (/\ LookupStep(p)
           /\ calls'[p].op = "analyze"
           /\ lastAnalysis.valid
           /\ lastAnalysis.config.provider = calls'[p].config.provider
           /\ lastAnalysis.config.model = calls'[p].config.model
           /\ lastAnalysis.input # calls'[p].input)
          => ~(calls'[p].hit /\ calls'[p].outcome = ResultOutcome(lastAnalysis.result))]_vars

\* C4: two writings of the same key object, differing only in the order of
\* their keys (at the top level and in the nested input), get the same key.
C4_KeyIndependentOfKeyOrder ==
    (probe.kind = "key" /\ answer.done) => answer.a = answer.b

\* the keys of two differently ordered writings have been computed
C4_Witness ==
    /\ probe.kind = "key" /\ answer.done
    /\ probe.a # probe.b
    /\ probe.a.props[1].k # probe.b.props[1].k
    /\ answer.a = answer.b

\* C5: a put stores its entry with timestamp now and leaves no expired entry
\* in either map; the maps change only in a put or in clear; a lookup changes
\* neither map; and an entry leaves a map only when it is expired at a put,
\* or by clear.
C5_EvictionOnlyOnPut ==
    [][LET cleared == analysisCache' = EmptyMap /\ generationCache' = EmptyMap
           /\ \A p \in AllProcs : calls'[p] = calls[p]
           Kept(old, new) ==
               \A k \in DOMAIN old :
                   \/ k \in DOMAIN new
                   \/ now - old[k].timestamp > CACHE_EXPIRATION
                   \/ cleared
           Swept(new) ==
               \A k \in DOMAIN new : now' - new[k].timestamp <= CACHE_EXPIRATION
       IN /\ \A p \in AllProcs :
                StoreStep(p) =>
                   LET c == calls'[p]
                       cache == IF c.op = "analyze" THEN analysisCache'
                                ELSE generationCache'
                   IN /\ CallKey(c) \in DOMAIN cache
                      /\ cache[CallKey(c)].timestamp = now'
                      /\ c.outcome = EntryOutcome(c, cache[CallKey(c)])
                      /\ Swept(analysisCache')
                      /\ Swept(generationCache')
          /\ (analysisCache' # analysisCache \/ generationCache' # generationCache)
                => (cleared \/ \E p \in AllProcs : StoreStep(p))
          /\ \A p \in AllProcs :
                (LookupStep(p) /\ ~StoreStep(p)) =>
                    analysisCache' = analysisCache /\ generationCache' = generationCache
          /\ Kept(analysisCache, analysisCache')
          /\ Kept(generationCache, generationCache')]_vars

\* a generation has been stored after the analysis stored before it expired,
\* and the put has removed that analysis
C5_Witness ==
    \E p \in AllProcs :
        /\ calls[p].op = "generate" /\ calls[p].pc = "done"
        /\ "CachingResult" \in Range(calls[p].phases)
        /\ CallKey(calls[p]) \in DOMAIN generationCache
        /\ generationCache[CallKey(calls[p])].timestamp = now
        /\ lastAnalysis.valid
        /\ now - lastAnalysis.storedAt > CACHE_EXPIRATION
        /\ analysisCache = EmptyMap

\* C6: an analyze call with no image and no (or empty) text ends with the
\* invalid-input error, having gone through validation only: no cache
\* lookup, no credential resolution, no vendor call.
C6_EmptyInputFailsFirst ==
    \A p \in AllProcs :
        (/\ calls[p].op = "analyze"
         /\ ~calls[p].input.imageFile.def
         /\ ~Truthy(calls[p].input.textDescription))
        => (/\ calls[p].pc = "done"
            /\ calls[p].outcome.kind = "error"
            /\ calls[p].outcome.error.isError
            /\ calls[p].outcome.error.msg =
                  <<Frag("Failed to analyze design: ", <<>>),
                    Frag("No input provided. Please provide an image or text description.",
                         <<>>)>>
            /\ calls[p].phases = <<"ValidatingInput">>
            /\ calls[p].client = NoClient
            /\ calls[p].vendorRequests = 0
            /\ ~calls[p].hit)

\* an analyze call with an empty text and no image has failed while an
\* analysis is in the cache
C6_Witness ==
    \E p \in AllProcs :
        /\ calls[p].op = "analyze" /\ calls[p].pc = "done"
        /\ calls[p].input = DesignInput(Undef, Str(<<>>))
        /\ calls[p].outcome.kind = "error"
        /\ analysisCache # EmptyMap

\* the error a call ended with is the unsupported-provider error naming the
\* provider as it was given
IsUnsupportedProviderError(c) ==
    /\ c.outcome.kind = "error"
    /\ c.outcome.error.isError
    /\ c.outcome.error.msg[Len(c.outcome.error.msg)] =
          Frag("Unsupported provider: ", c.config.provider)

C8_MissingKeyExactlyWhenNoKey ==
    (probe.kind = "cred" /\ answer.done) =>
        LET p == probe.config.provider
            r == answer.result
            HasKey(v) == v.def /\ Trim(v.s) # <<>>
            envKey == IF p = S_openai THEN probe.env.OPENAI_API_KEY
                      ELSE probe.env.TOGETHER_API_KEY
            envUrl == IF p = S_ollama THEN probe.env.OLLAMA_BASE_URL
                      ELSE probe.env.LMSTUDIO_BASE_URL
            name == IF p = S_openai THEN S_OpenAI ELSE S_TogetherAI
            missingKey == ~r.ok /\ r.error.msg[1].lit = "Missing API key for "
        IN /\ p \in {S_openai, S_togetherai}
              => /\ missingKey <=> ~(HasKey(probe.config.credentials.apiKey) \/ HasKey(envKey))
                 /\ missingKey => r.error = MissingApiKeyError(name)
                 /\ ~missingKey => r.ok
           /\ p \in {S_lmstudio, S_ollama}
              => /\ ~missingKey
                 /\ (Truthy(probe.config.credentials.baseUrl) \/ Truthy(envUrl) \/ ~envUrl.def)
                       => r.ok

\* C9: in every client that is built, each value it is built with follows
\* the precedence: a value the override supplies is the one used; else a
\* value the environment variable supplies is the one used; the hardcoded
\* default is used only when neither supplies a value, and then it is used.
C9_OverrideThenEnvThenDefault ==
    (probe.kind = "cred" /\ answer.done /\ answer.result.ok) =>
        LET p == probe.config.provider
            o == probe.config.credentials
            e == probe.env
            client == answer.result.client
            \* used: the value taken, from override ov, environment ev, default d
            Precedence(used, ov, ev, d) ==
                /\ Truthy(ov) => used = ov
                /\ (~Truthy(ov) /\ Truthy(ev)) => used = ev
                /\ (d.def /\ used = d) => (~Truthy(ov) /\ ~Truthy(ev))
                /\ (d.def /\ ~Truthy(ov) /\ ~Truthy(ev)) => used = d
                /\ (~d.def /\ ~Truthy(ov) /\ ~Truthy(ev)) => ~Truthy(used)
        IN /\ p = S_openai
              => /\ Precedence(client.apiKey, o.apiKey, e.OPENAI_API_KEY, Undef)
                 /\ Precedence(client.baseUrl, o.baseUrl, e.OPENAI_BASE_URL, Undef)
           /\ p = S_togetherai
              => Precedence(client.apiKey, o.apiKey, e.TOGETHER_API_KEY, Undef)
           /\ p = S_lmstudio
              => /\ Precedence(client.baseUrl, o.baseUrl, e.LMSTUDIO_BASE_URL,
                               Str(S_lmstudioDefaultUrl))
                 /\ Precedence(client.apiKey, o.apiKey, Undef, Str(S_lmstudioKey))
           /\ p = S_ollama
              => Precedence(client.baseUrl, o.baseUrl, e.OLLAMA_BASE_URL,
                            Str(S_ollamaDefaultUrl))

\* an OpenAI client has been built with the override key and the
\* environment's base URL, where the environment holds another key
C9_Witness ==
    /\ probe.kind = "cred" /\ answer.done /\ answer.result.ok
    /\ probe.config.provider = S_openai
    /\ probe.config.credentials.apiKey = Str(S_sk1)
    /\ probe.env.OPENAI_API_KEY = Str(S_sk2)
    /\ ~probe.config.credentials.baseUrl.def
    /\ answer.result.client.apiKey = Str(S_sk1)
    /\ answer.result.client.baseUrl = Str(S_urlB)

\* C10: a call whose vendor request failed ends with an error (it returns
\* no value), and when the vendor threw an Error the error raised is the
\* operation's prefix followed by the vendor's message.
C10_VendorFailureRethrown ==
    \A p \in AllProcs :
        calls[p].response.kind = "throw"
        => /\ calls[p].pc = "done"
           /\ calls[p].outcome.kind = "error"
           /\ calls[p].outcome.error.isError
           /\ calls[p].response.error.isError
                 => calls[p].outcome.error.msg =
                       <<Frag(IF calls[p].op = "analyze" THEN "Failed to analyze design: "
                              ELSE "Failed to generate files: ", <<>>)>>
                       \o calls[p].response.error.msg

\* the vendor call of an analyze has thrown an Error and the call has ended
\* with it
C10_Witness ==
    \E p \in AllProcs :
        /\ calls[p].op = "analyze" /\ calls[p].pc = "done"
        /\ calls[p].response.kind = "throw"
        /\ calls[p].response.error.isError
        /\ calls[p].outcome.kind = "error"
        /\ calls[p].outcome.error.msg[2] = Frag("", T_boom)

C12_CacheIsFailOpen ==
    \A p \in AllProcs :
        (calls[p].op = "analyze" /\ calls[p].pc = "done")
        => /\ calls[p].response.kind = "ok"
                 => /\ calls[p].outcome.kind = "result"
                    /\ calls[p].outcome.result.analysis = calls[p].response.content.s
           /\ (calls[p].imageFailed /\ calls[p].outcome.kind = "error")
                 => calls[p].phases # <<"ValidatingInput">>

\* the chunk begins with one of the two error markers
HasErrorMarker(chunk) == chunk[1].lit \in {"Error: ", "Streaming error: "}

IsPrefix(a, b) == Len(a) <= Len(b) /\ SubSeq(b, 1, Len(a)) = a

\* C13: a finished streamAnalyze call that was given neither an image nor a
\* text has yielded no chunk and has thrown the invalid-input error.
C13_EmptyInputRaisesBeforeStream ==
    \A p \in AllProcs :
        (/\ calls[p].op = "stream" /\ calls[p].pc = "done"
         /\ ~calls[p].input.imageFile.def
         /\ ~Truthy(calls[p].input.textDescription))
        => (calls[p].chunks = <<>> /\ calls[p].outcome.kind = "error")

\* C14: within a streamAnalyze call the chunks yielded so far are never taken
\* back; a stream that failed (at its opening or in its course) is followed
\* by the non-streaming analyze call; and when that fallback succeeded, the generator has returned normally,
\* the failure was announced by a chunk, and the last chunk is the whole
\* analysis text of the fallback.
C14_StreamFailureFallsBack ==
    [][\A p \in AllProcs :
          /\ (calls'[p].seq = calls[p].seq) => IsPrefix(calls[p].chunks, calls'[p].chunks)
          /\ calls'[p].streamFailed
                => Cardinality({i \in DOMAIN calls'[p].phases :
                                   calls'[p].phases[i] = "ValidatingInput"}) = 2
          /\ (/\ calls'[p].op = "stream" /\ calls'[p].pc = "done"
              /\ calls'[p].streamFailed
              /\ calls'[p].outcome.error = NoError)
             => /\ calls'[p].outcome.kind = "ended"
                /\ calls'[p].chunks[Len(calls'[p].chunks)] =
                      TextChunk(calls'[p].outcome.result.analysis)
                /\ calls'[p].outcome.result # NoResult
                /\ \E i \in 1..(Len(calls'[p].chunks) - 1) :
                      calls'[p].chunks[i][1].lit = "Streaming error: "]_vars

\* a stream broke off after a chunk had been yielded, and the fallback's
\* analysis came as the last chunk after that chunk and the error chunk
C14_Witness ==
    \E p \in AllProcs :
        /\ calls[p].op = "stream" /\ calls[p].pc = "done"
        /\ calls[p].streamFailed
        /\ calls[p].received = 1
        /\ calls[p].outcome.error = NoError
        /\ Len(calls[p].chunks) = 4
        /\ calls[p].chunks[2] = TextChunk(T_b)
        /\ calls[p].chunks[3][1].lit = "Streaming error: "
        /\ calls[p].chunks[4] = TextChunk(T_heading)

IsHeading(s, i, a, e) ==
    /\ s[i] = 35
    /\ i = 1 \/ s[i - 1] \in {10, 13, 8232, 8233}
    /\ i + 1 < a
    /\ \A k \in (i + 1)..(a - 1) : IsSpace(s[k])
    /\ a + 3 <= e
    /\ \A k \in a..(e - 3) : s[k] \in (48..57) \cup (65..90) \cup (97..122) \cup {95, 45}
    /\ <<s[e - 2], s[e - 1], s[e]>> = <<46, 109, 100>>
    /\ \E j \in e..Len(s) :
          /\ \A k \in (e + 1)..j : IsSpace(s[k])
          /\ j = Len(s) \/ s[j + 1] \in {10, 13, 8232, 8233}

HeadingStarts(s) ==
    {i \in 1..Len(s) : \E a, e \in 1..Len(s) : IsHeading(s, i, a, e)}

\* the positions of the file name of the heading that starts at i
HeadingName(s, i) ==
    CHOOSE n \in (1..Len(s)) \X (1..Len(s)) : IsHeading(s, i, n[1], n[2])

\* C16: for a text with N >= 1 headings the parser returns exactly N files
\* in the order of the headings; file k has the file name of heading k, the
\* path "/generated/" + name, and as content the trimmed text from just
\* after heading k to just before heading k+1 (the end of the text for the
\* last heading).
C16_HeadingsBecomeFiles ==
    (probe.kind = "parse" /\ answer.done) =>
        LET s == probe.text
            H == HeadingStarts(s)
            files == answer.files
        IN H # {} =>
             /\ Len(files) = Cardinality(H)
             /\ \A i \in H :
                   LET k == 1 + Cardinality({j \in H : j < i})
                       n == HeadingName(s, i)
                       name == SubSeq(s, n[1], n[2])
                       later == {j \in H : j > i}
                       stop == IF later = {} THEN Len(s) + 1
                               ELSE CHOOSE j \in later : \A x \in later : j <= x
                   IN /\ files[k].name = name
                      /\ files[k].path =
                            <<47, 103, 101, 110, 101, 114, 97, 116, 101, 100, 47>> \o name
                      /\ files[k].content = Trim(SubSeq(s, n[2] + 1, stop - 1))

\* two headings with text between them, the first one written over two lines
C16_Witness ==
    /\ probe.kind = "parse"
    /\ answer.done
    /\ Cardinality(HeadingStarts(probe.text)) = 2
    /\ Len(answer.files) = 2
    /\ answer.files[1].name # answer.files[2].name
    /\ answer.files[1].content # <<>>

\* the characters of a text that are not white space, in order
RECURSIVE NonSpace(_)
NonSpace(s) ==
    IF s = <<>> THEN <<>>
    ELSE IF IsSpace(Head(s)) THEN NonSpace(Tail(s))
    ELSE <<Head(s)>> \o NonSpace(Tail(s))

\* the files written back as one text: "# " + name, a line break, the
\* content, a line break, file after file
RECURSIVE Rejoin(_)
Rejoin(files) ==
    IF files = <<>> THEN <<>>
    ELSE <<35, 32>> \o Head(files).name \o <<10>> \o Head(files).content \o <<10>>
         \o Rejoin(Tail(files))

\* C17: for a text with N >= 1 headings, the returned contents re-joined in
\* order with their headings put back give the text again up to white space
\* at the segment boundaries: no character that is not white space is lost,
\* the text before the first heading included.
C17_RoundTrip ==
    (probe.kind = "parse" /\ answer.done /\ HeadingStarts(probe.text) # {}) =>
        NonSpace(Rejoin(answer.files)) = NonSpace(probe.text)

\* the contents of the files one after the other
RECURSIVE Contents(_)
Contents(files) ==
    IF files = <<>> THEN <<>> ELSE Head(files).content \o Contents(Tail(files))

\* C18: a text without headings is cut into one piece per default file name
\* (5 files, in the fixed order), every character in exactly one file: the
\* contents one after the other are the text again, whatever its length.
C18_FallbackPartitionsText ==
    (probe.kind = "parse" /\ answer.done /\ HeadingStarts(probe.text) = {}) =>
        /\ Len(answer.files) = 5
        /\ Contents(answer.files) = probe.text

\* C19: the parser never returns an empty list, and for the empty text it
\* returns the whole default list: 5 files, the default names in order, each
\* with empty content.
C19_NeverEmpty ==
    (probe.kind = "parse" /\ answer.done) =>
        /\ Len(answer.files) >= 1
        /\ probe.text = <<>> =>
              /\ Len(answer.files) = 5
              /\ \A i \in 1..5 :
                    /\ answer.files[i].name = defaultFiles[i]
                    /\ answer.files[i].content = <<>>

\* the empty text has been parsed
C19_Witness ==
    /\ probe.kind = "parse"
    /\ probe.text = <<>>
    /\ answer.done
    /\ Len(answer.files) = 5

\* C20: a generateProjectFiles call that misses the cache and whose vendor
\* response holds the heading lines "# Header.tsx" and "# Footer.tsx"
\* returns exactly 2 files, named Header.tsx and Footer.tsx in that order.
C20_TsxHeadingsBecomeFiles ==
    \A p \in AllProcs :
        (/\ calls[p].op = "generate"
         /\ calls[p].pc = "done"
         /\ ~calls[p].hit
         /\ calls[p].response.kind = "ok"
         /\ calls[p].response.content = Str(T_tsx)) =>
            /\ calls[p].outcome.kind = "files"
            /\ Len(calls[p].outcome.files) = 2
            /\ calls[p].outcome.files[1].name = <<72, 101, 97, 100, 101, 114, 46, 116, 115, 120>>
            /\ calls[p].outcome.files[2].name = <<70, 111, 111, 116, 101, 114, 46, 116, 115, 120>>

\* the first original file that has the name of the given file, if any
FirstOriginal(originalFiles, file) ==
    LET found == {j \in 1..Len(originalFiles) : originalFiles[j].name = file.name}
    IN IF found = {} THEN 0 ELSE CHOOSE j \in found : \A k \in found : j <= k

\* C21: processRevision keeps identity: an output file whose name is the
\* name of an original file has the id and the path of that original file
\* (the first of that name), and an output file without such a match has a
\* fresh id, different from every original file's id, and the generated path.
C21_RevisionKeepsIdentity ==
    (probe.kind = "revise" /\ answer.done /\ answer.result.ok) =>
        LET originalFiles == probe.originalFiles
            files == answer.result.files
        IN \A i \in 1..Len(files) :
             LET j == FirstOriginal(originalFiles, files[i])
             IN IF j # 0
                THEN /\ files[i].id = originalFiles[j].id
                     /\ files[i].path = originalFiles[j].path
                ELSE /\ \A k \in 1..Len(originalFiles) : files[i].id # originalFiles[k].id
                     /\ files[i].path =
                           <<47, 103, 101, 110, 101, 114, 97, 116, 101, 100, 47>>
                           \o files[i].name

\* a revision with one file that keeps a moved original's identity and one
\* file that is new
C21_Witness ==
    /\ probe.kind = "revise"
    /\ answer.done
    /\ answer.result.ok
    /\ \E i, k \in 1..Len(answer.result.files) :
          /\ FirstOriginal(probe.originalFiles, answer.result.files[i]) # 0
          /\ answer.result.files[i].path = <<47, 112>>
          /\ FirstOriginal(probe.originalFiles, answer.result.files[k]) = 0

\* C25: the files one processRevision call returns have pairwise distinct
\* ids, whatever the vendor answers.
C25_RevisedIdsDistinct ==
    (probe.kind = "revise" /\ answer.done /\ answer.result.ok) =>
        \A i, k \in 1..Len(answer.result.files) :
            i # k => answer.result.files[i].id # answer.result.files[k].id

\* C22: a temperature or maxTokens the caller sets always overrides the
\* tuned defaults: the request sent by analyzeDesign, generateProjectFiles
\* and streamingAnalyzeDesign carries the caller's value for every value set
\* (temperature 0 included), and the default only when the field is not set.
C22_CallerParametersOverride ==
    \A p \in AllProcs :
        calls[p].vendorRequests > 0 =>
            LET c == calls[p].config
                optimizedParams == getOptimalParameters(c.provider, c.model)
            IN /\ calls[p].request.temperature =
                     IF c.temperature.def THEN c.temperature.n
                     ELSE optimizedParams.temperature
               /\ calls[p].request.max_tokens =
                     IF c.maxTokens.def THEN c.maxTokens.n
                     ELSE optimizedParams.max_tokens

PhaseOrder ==
    <<"ValidatingInput", "CacheLookup", "ResolvingCredentials", "BuildingPrompt",
      "Dispatching", "ParsingResponse", "CachingResult">>

\* C24: an analyze or generateFiles call goes through ValidatingInput,
\* CacheLookup and, on a miss, ResolvingCredentials, BuildingPrompt,
\* Dispatching, ParsingResponse, CachingResult in this order (generateFiles
\* has nothing to validate and starts at CacheLookup); a hit ends the call at
\* CacheLookup with the cached value, no credentials resolved and nothing
\* dispatched; and a call fails only from ValidatingInput (the input is
\* rejected), ResolvingCredentials or Dispatching.
C24_PhasesInOrder ==
    \A p \in AllProcs :
        calls[p].op \in {"analyze", "generate"} =>
            LET c == calls[p]
                order == IF c.op = "analyze" THEN PhaseOrder ELSE Tail(PhaseOrder)
                last == c.phases[Len(c.phases)]
            IN /\ IsPrefix(c.phases, order)
               /\ (c.pc = "done" /\ c.hit) =>
                     /\ last = "CacheLookup"
                     /\ c.outcome.kind \in {"result", "files"}
                     /\ c.vendorRequests = 0
                     /\ c.client = NoClient
               /\ (c.pc = "done" /\ ~c.hit /\ c.outcome.kind # "error") =>
                     c.phases = order
               /\ (c.pc = "done" /\ c.outcome.kind = "error") =>
                     \/ last = "ValidatingInput" /\ ~c.imageFailed
                     \/ last \in {"ResolvingCredentials", "Dispatching"}

\* the key analyzeDesign would use for the input and configuration of a call
AnalysisKeyOf(c) == CallKey([c EXCEPT !.op = "analyze"])

\* C26: a streamAnalyze call with provider openai never reads the analysis
\* cache before it opens the stream and a stream that does not fail never
\* writes it: the request is issued even when an unexpired analysis is cached
\* for the same input and configuration, and both maps stay as they are; a
\* call touches the cache only on the non-streaming path (after a stream
\* failure, or for another provider).
C26_StreamBypassesCache ==
    [][\A p \in AllProcs :
          (calls'[p] # calls[p] /\ calls'[p].op = "stream") =>
              LET c == calls'[p]
                  streams == ToLowerCase(c.config.provider) = S_openai /\ ~c.streamFailed
              IN /\ streams =>
                       /\ analysisCache' = analysisCache
                       /\ generationCache' = generationCache
                       /\ "CacheLookup" \notin Range(c.phases)
                       /\ ~c.hit
                 /\ (streams /\ c.seq # calls[p].seq /\ ~c.input.imageFile.def
                       /\ Truthy(c.input.textDescription)
                       /\ initializeProvider(c.config, processEnv).ok) =>
                       /\ c.pc = "streamOpen"
                       /\ c.vendorRequests = 1
                 /\ (analysisCache' # analysisCache \/ generationCache' # generationCache) =>
                       ~streams]_vars

\* the second call streams from openai although the analysis of its input
\* and configuration is in the cache and has not expired
C26_Witness ==
    \E p \in AllProcs :
        /\ calls[p].op = "stream"
        /\ calls[p].seq = 2
        /\ calls[p].pc = "done"
        /\ calls[p].outcome.kind = "ended"
        /\ ~calls[p].streamFailed
        /\ calls[p].vendorRequests = 1
        /\ AnalysisKeyOf(calls[p]) \in DOMAIN analysisCache
        /\ ~Expired(analysisCache[AnalysisKeyOf(calls[p])], now)

\* this step ends caller p's call
EndsCall(p) ==
    /\ calls'[p].pc = "done"
    /\ calls'[p].seq # calls[p].seq \/ calls[p].pc # "done"

\* C27: every generateFiles call that succeeds and was given a project name
\* (a non-empty one) adds exactly one new stored project, at the head of the
\* list, holding the files it returns, on a cache hit as on a miss; a call
\* without project name and a call that fails leave the list as it is.
C27_NamedCallStoresOneProject ==
    [][\A p \in AllProcs :
          (calls'[p] # calls[p] /\ calls'[p].op = "generate") =>
              IF /\ EndsCall(p)
                 /\ calls'[p].outcome.kind = "files"
                 /\ Truthy(calls'[p].projectName)
              THEN /\ Len(storedProjects') = Min(Len(storedProjects) + 1, MAX_PROJECTS)
                   /\ \A i \in 2..Len(storedProjects') :
                         storedProjects'[i] = storedProjects[i - 1]
                   /\ storedProjects'[1].name = calls'[p].projectName.s
                   /\ storedProjects'[1].files = calls'[p].outcome.files
                   /\ \A i \in 1..Len(storedProjects) :
                         storedProjects[i].id # storedProjects'[1].id
              ELSE storedProjects' = storedProjects]_vars

\* two identical named calls, the second a cache hit, have left two stored
\* projects with the same files
C27_Witness ==
    \E p \in AllProcs :
        /\ calls[p].op = "generate" /\ calls[p].pc = "done" /\ calls[p].hit
        /\ Truthy(calls[p].projectName)
        /\ Len(storedProjects) = 2
        /\ storedProjects[1].files = storedProjects[2].files
        /\ storedProjects[1].id # storedProjects[2].id

\* C28: after any sequence of saves, updates, file saves and deletes the
\* stored list holds at most MAX_PROJECTS projects, their ids are pairwise
\* distinct, and the list is ordered most recent first (timestamps never
\* increase along the list), so that the project a save drops from a full
\* list, the last one, is the oldest.
C28_StoredListNewestFirst ==
    /\ Len(storedProjects) <= 50
    /\ \A i, k \in 1..Len(storedProjects) :
          i < k => /\ storedProjects[i].id # storedProjects[k].id
                   /\ storedProjects[i].timestamp >= storedProjects[k].timestamp

\* C29: the function wrapped by throttle(func, limit) is invoked at most
\* once in any window of limit milliseconds: two invocations are always at
\* least limit apart.
C29_AtMostOncePerWindow ==
    \A i, k \in 1..Len(throttled.invoked) :
        i < k => throttled.invoked[k].at - throttled.invoked[i].at >= ThrottleLimit

\* C30: in the GenerationWizard the step stays within 0..4, the wizard is
\* at the generation step (3) only with an analysis stored and at the
\* results step (4) only with generated files, and a failed analyze or
\* generate leaves the step where it is, resets isProcessing and sets an
\* error message.
C30_WizardStepsGuarded ==
    [][/\ wizard'.currentStep \in 0..4
       /\ wizard'.currentStep = 3 => wizard'.currentAnalysis
       /\ wizard'.currentStep = 4 => Len(wizard'.generatedFiles) > 0
       /\ (wizard.pending # "none" /\ wizard'.settled = "failed") =>
             /\ wizard'.currentStep = wizard.currentStep
             /\ ~wizard'.isProcessing
             /\ wizard'.error # ""]_vars

\* the wizard is at the generation step after a failed generation
C30_Witness ==
    /\ wizard.mounted
    /\ wizard.currentStep = 3
    /\ wizard.settled = "failed"
    /\ wizard.error = "Failed to generate files: boom"
    /\ ~wizard.isProcessing

====
